---- MODULE Spec2Model ----
(***************************************************************************)
(* A model of the Nano Banana extension host: the template catalog         *)
(* (PrePromptService), the image generation client (GeminiService), the    *)
(* secret store adapter (StorageManager) and the session orchestrator      *)
(* (NanoBananaViewProvider) with its asynchronous message handlers.        *)
(*                                                                         *)
(* Strings are TLA+ strings; TLC evaluates Len, \o and SubSeq on them, so  *)
(* String.includes and String.trim are computed character by character.    *)
(* An optional value (T | undefined | null) is a sequence of length at     *)
(* most one: <<>> is undefined/null, <<v>> is the value v.                 *)
(***************************************************************************)
EXTENDS Integers, Sequences, FiniteSets, Bags, TLC

VARIABLES
    secret,     \* context.secrets[API_KEY_SECRET]: optional string
    client,     \* GeminiService.client: optional, the apiKey it was built with
    custom,     \* context.globalState[STORAGE_KEY]: sequence of PrePrompt
    now,        \* the value Date.now() returns
    editor,     \* the active editor's selected text: optional string
    tasks,      \* the bag of handlers (and calls) suspended at an await
    last,       \* the handler (or service call) that this step completed, if any
    received,   \* number of inbound messages, host events and calls accepted so far
    adds,       \* number of addPrePrompt calls that returned a template
    deletes,    \* number of deletePrePrompt calls that returned true
    keyDeleted, \* a deleteApiKey was handled and no saveApiKey arrived since
    config,     \* the workspace configuration section "nanobanana"
    view        \* the webview view: whether it is disposed, the messages posted to
                \* it and not yet handled, and the state of the script in it

vars == <<secret, client, custom, now, editor, tasks, last, received, adds,
          deletes, keyDeleted, config, view>>

(***************************************************************************)
(* Bounds of the model.                                                    *)
(***************************************************************************)
MaxReceived == 3
MaxInFlight == 2
MaxParts == 2

(***************************************************************************)
(* Optional values and JavaScript truthiness of strings.                   *)
(***************************************************************************)
None == <<>>

Some(v) == <<v>>

\* !!x for x : string | undefined
Truthy(opt) == opt # None /\ Len(opt[1]) > 0

\* String.prototype.includes
Includes(s, sub) ==
    \E i \in 0..(Len(s) - Len(sub)) : SubSeq(s, i + 1, i + Len(sub)) = sub

\* s.trim() is the empty string
TrimIsEmpty(s) == \A i \in 1..Len(s) : SubSeq(s, i, i) \in {" ", "\t", "\n", "\r"}

(***************************************************************************)
(* Messages of thrown errors.                                              *)
(***************************************************************************)
MSG_NOT_INITIALIZED == "Gemini API not initialized. Please set your API key."

MSG_NO_RESPONSE == "No response from model. Please try a different prompt."

MSG_NO_IMAGE == "No image was generated. Please try a different prompt."

MSG_INVALID_KEY == "Invalid API key. Please check your Gemini API key."

MSG_RATE_LIMIT == "API rate limit exceeded. Please try again later."

MSG_UNEXPECTED == "An unexpected error occurred during image generation."

MSG_SET_KEY_FIRST == "Please set your Gemini API key first."

MSG_TYPE_NOT_FOUND == "Selected diagram type not found."

MSG_ENTER_DESCRIPTION == "Please enter a description for your diagram."

MSG_CANNOT_DELETE == "Cannot delete default diagram types."

MSG_CANNOT_UPDATE == "Cannot update this diagram type."

DEFAULT_MODEL == "gemini-3-pro-image-preview"

DEFAULT_MIME == "image/png"

\* A thrown value: an Error object with a message, or some other value.
Err(m) == [isError |-> TRUE, message |-> m]

NonError == [isError |-> FALSE, message |-> ""]

Thrown(e) == [ok |-> FALSE, error |-> e]

Returned(v) == [ok |-> TRUE, value |-> v]

(***************************************************************************)
(* Template catalog: PrePromptService.                                     *)
(***************************************************************************)
DEFAULT_PREPROMPTS ==
    << [id |-> "flowchart", name |-> "Flowchart",
        prompt |-> "clean flowchart diagram, boxes and arrows, clear labels, professional technical illustration, white background",
        isDefault |-> TRUE],
       [id |-> "sequence", name |-> "Sequence Diagram",
        prompt |-> "UML sequence diagram, lifelines, messages, activations, professional technical diagram, white background",
        isDefault |-> TRUE],
       [id |-> "architecture", name |-> "Architecture Diagram",
        prompt |-> "software architecture diagram, components, connections, layers, clean technical illustration, white background",
        isDefault |-> TRUE],
       [id |-> "er-diagram", name |-> "ER Diagram",
        prompt |-> "entity-relationship diagram, tables, relationships, cardinality notation, database schema, white background",
        isDefault |-> TRUE],
       [id |-> "mindmap", name |-> "Mind Map",
        prompt |-> "mind map diagram, central topic with branching subtopics, colorful nodes, organic connections",
        isDefault |-> TRUE],
       [id |-> "network", name |-> "Network Diagram",
        prompt |-> "network topology diagram, nodes, connections, servers, clients, infrastructure illustration, white background",
        isDefault |-> TRUE],
       [id |-> "class-diagram", name |-> "Class Diagram",
        prompt |-> "UML class diagram, classes with attributes and methods, inheritance arrows, associations, white background",
        isDefault |-> TRUE],
       [id |-> "state-machine", name |-> "State Machine",
        prompt |-> "state machine diagram, states as circles, transitions as arrows, initial and final states, white background",
        isDefault |-> TRUE] >>

\* Array.prototype.filter
RECURSIVE FilterOutId(_, _)
FilterOutId(list, id) ==
    IF list = <<>> THEN <<>>
    ELSE IF Head(list).id # id
         THEN <<Head(list)>> \o FilterOutId(Tail(list), id)
         ELSE FilterOutId(Tail(list), id)

\* Array.prototype.findIndex on p.id === id: 0 when there is none
FindIndex(list, id) ==
    IF \E i \in 1..Len(list) : list[i].id = id
    THEN CHOOSE i \in 1..Len(list) :
             list[i].id = id /\ \A j \in 1..(i - 1) : list[j].id # id
    ELSE 0

\* Array.prototype.find on p.id === id
Find(list, id) ==
    IF FindIndex(list, id) = 0 THEN None ELSE Some(list[FindIndex(list, id)])

\* GetAllPrePrompts with the custom templates first
GetAllPrePromptsCustomFirst(c) == c \o DEFAULT_PREPROMPTS

GetAllPrePrompts(c) == DEFAULT_PREPROMPTS \o c

\* GetPrePromptById that looks among the built-in templates only
GetPrePromptByIdBuiltIn(c, id) == Find(DEFAULT_PREPROMPTS, id)

GetPrePromptById(c, id) == Find(GetAllPrePrompts(c), id)

IsDefaultPrePrompt(id) == \E i \in 1..Len(DEFAULT_PREPROMPTS) : DEFAULT_PREPROMPTS[i].id = id

\* `custom_${Date.now()}`
NewId(t) == "custom_" \o ToString(t)

NewPrePrompt(t, name, prompt) ==
    [id |-> NewId(t), name |-> name, prompt |-> prompt, isDefault |-> FALSE]

\* AddPrePrompt with the new template put in front of the stored ones
AddPrePromptInFront(c, t, name, prompt) ==
    [list |-> <<NewPrePrompt(t, name, prompt)>> \o c,
     ret |-> NewPrePrompt(t, name, prompt)]

\* addPrePrompt up to its await: the list handed to globalState.update and
\* the template returned
AddPrePrompt(c, t, name, prompt) ==
    [list |-> Append(c, NewPrePrompt(t, name, prompt)),
     ret |-> NewPrePrompt(t, name, prompt)]

\* deletePrePrompt up to its await: whether globalState.update is called,
\* and with which list
DeletePrePrompt(c, id) ==
    IF Find(c, id) = None THEN [ret |-> FALSE, list |-> c]
    ELSE IF Find(c, id)[1].isDefault THEN [ret |-> FALSE, list |-> c]
    ELSE [ret |-> TRUE, list |-> FilterOutId(c, id)]

\* updatePrePrompt: fails on a built-in or unknown id, otherwise replaces the
\* stored custom entry in place, keeping its id and position
UpdatePrePrompt(c, id, name, prompt) ==
    IF FindIndex(c, id) = 0 \/ IsDefaultPrePrompt(id) THEN [ret |-> FALSE, list |-> c]
    ELSE [ret |-> TRUE,
          list |-> [c EXCEPT ![FindIndex(c, id)] =
                       [id |-> id, name |-> name, prompt |-> prompt, isDefault |-> FALSE]]]

(***************************************************************************)
(* Image generation client: GeminiService.                                 *)
(*                                                                         *)
(* What client.models.generateContent does is an input: it returns a       *)
(* response whose candidate parts are an optional list of parts (each with *)
(* optional inlineData, whose mimeType is optional), or it throws.         *)
(***************************************************************************)
TextPart == [inlineData |-> None]

InlinePart(data, mime) == [inlineData |-> Some([data |-> data, mimeType |-> mime])]

Response(parts) == [kind |-> "response", parts |-> parts]

ApiThrows(e) == [kind |-> "throws", error |-> e]

\* FinalPrompt with the content first
FinalPromptContentFirst(diagramTypePrompt, userContent) ==
    userContent \o " showing: " \o diagramTypePrompt

\* `${diagramTypePrompt} showing: ${userContent}`
FinalPrompt(diagramTypePrompt, userContent) ==
    diagramTypePrompt \o " showing: " \o userContent

\* FirstInline with the last part with inlineData
LastInline(parts) ==
    IF \E i \in 1..Len(parts) : parts[i].inlineData # None
    THEN Some(parts[CHOOSE i \in 1..Len(parts) :
                 /\ parts[i].inlineData # None
                 /\ \A j \in (i + 1)..Len(parts) : parts[j].inlineData = None].inlineData[1])
    ELSE None

\* the for loop over parts: the first part with inlineData, if any
FirstInline(parts) ==
    IF \E i \in 1..Len(parts) : parts[i].inlineData # None
    THEN Some(parts[CHOOSE i \in 1..Len(parts) :
                 /\ parts[i].inlineData # None
                 /\ \A j \in 1..(i - 1) : parts[j].inlineData = None].inlineData[1])
    ELSE None

\* TryBlock with a test for missing parts only, an empty list reaching the loop
TryBlockMissingOnly(api) ==
    IF api.kind = "throws" THEN Thrown(api.error)
    ELSE IF api.parts = None THEN Thrown(Err(MSG_NO_RESPONSE))
    ELSE IF FirstInline(api.parts[1]) = None THEN Thrown(Err(MSG_NO_IMAGE))
    ELSE Returned([base64 |-> FirstInline(api.parts[1])[1].data,
                   mimeType |-> IF Truthy(FirstInline(api.parts[1])[1].mimeType)
                                THEN FirstInline(api.parts[1])[1].mimeType[1]
                                ELSE DEFAULT_MIME])

\* the try block: what it returns or throws for what the remote API did
TryBlock(api) ==
    IF api.kind = "throws" THEN Thrown(api.error)
    ELSE IF api.parts = None \/ Len(api.parts[1]) = 0 THEN Thrown(Err(MSG_NO_RESPONSE))
    ELSE IF FirstInline(api.parts[1]) = None THEN Thrown(Err(MSG_NO_IMAGE))
    ELSE Returned([base64 |-> FirstInline(api.parts[1])[1].data,
                   mimeType |-> IF Truthy(FirstInline(api.parts[1])[1].mimeType)
                                THEN FirstInline(api.parts[1])[1].mimeType[1]
                                ELSE DEFAULT_MIME])

\* CatchBlock with the test for "quota" and "rate" first
CatchBlockQuotaFirst(error) ==
    IF error.isError
    THEN IF Includes(error.message, "quota") \/ Includes(error.message, "rate")
         THEN Err(MSG_RATE_LIMIT)
         ELSE IF Includes(error.message, "API key") THEN Err(MSG_INVALID_KEY)
              ELSE error
    ELSE Err(MSG_UNEXPECTED)

\* CatchBlock without the test for "rate"
CatchBlockQuotaOnly(error) ==
    IF error.isError
    THEN IF Includes(error.message, "API key") THEN Err(MSG_INVALID_KEY)
         ELSE IF Includes(error.message, "quota") THEN Err(MSG_RATE_LIMIT)
              ELSE error
    ELSE Err(MSG_UNEXPECTED)

\* the catch block: the error it throws for the error it caught
CatchBlock(error) ==
    IF error.isError
    THEN IF Includes(error.message, "API key") THEN Err(MSG_INVALID_KEY)
         ELSE IF Includes(error.message, "quota") \/ Includes(error.message, "rate")
              THEN Err(MSG_RATE_LIMIT)
              ELSE error
    ELSE Err(MSG_UNEXPECTED)

\* generateDiagram once the remote API has answered: every value the try
\* block throws passes through the catch block
GenerateDiagram(api) ==
    IF TryBlock(api).ok THEN TryBlock(api) ELSE Thrown(CatchBlock(TryBlock(api).error))

IsInitialized(cl) == cl # None

\* GenerateDiagramCall with the test of the client inside the try block
GenerateDiagramCallInsideTry(cl, diagramTypePrompt, userContent, imageConfig) ==
    IF cl = None THEN Thrown(CatchBlock(Err(MSG_NOT_INITIALIZED)))
    ELSE Returned([key |-> cl[1],
                   model |-> IF Truthy(imageConfig.model) THEN imageConfig.model[1]
                             ELSE DEFAULT_MODEL,
                   contents |-> FinalPrompt(diagramTypePrompt, userContent)])

\* generateDiagram up to its await: the error it throws without a client, or
\* the request it sends through the client (bound to the key cl[1])
GenerateDiagramCall(cl, diagramTypePrompt, userContent, imageConfig) ==
    IF cl = None THEN Thrown(Err(MSG_NOT_INITIALIZED))
    ELSE Returned([key |-> cl[1],
                   model |-> IF Truthy(imageConfig.model) THEN imageConfig.model[1]
                             ELSE DEFAULT_MODEL,
                   contents |-> FinalPrompt(diagramTypePrompt, userContent)])

(***************************************************************************)
(* Session orchestrator: NanoBananaViewProvider.                           *)
(***************************************************************************)
MAX_LINES == 100

\* positions of the newlines of a text
Newlines(text) == {i \in 1..Len(text) : SubSeq(text, i, i) = "\n"}

\* LimitedText without the slice
LimitedTextWhole(text) == text

\* lines.slice(0, 100).join("\n") for lines = text.split("\n")
LimitedText(text) ==
    IF Cardinality(Newlines(text)) < MAX_LINES THEN text
    ELSE SubSeq(text, 1,
                (CHOOSE p \in Newlines(text) :
                     Cardinality({q \in Newlines(text) : q <= p}) = MAX_LINES) - 1)

Min(a, b) == IF a <= b THEN a ELSE b

\* getSelectedText: ed is the selected text of the active editor, None when
\* there is no active editor or the selection is empty
GetSelectedText(ed) ==
    IF ed = None THEN None
    ELSE Some([text |-> LimitedText(ed[1]),
               lineCount |-> Min(Cardinality(Newlines(ed[1])) + 1, MAX_LINES)])

\* config.get<string>(name) || fallback
ConfigOr(opt, fallback) == IF Truthy(opt) THEN opt[1] ELSE fallback

EffectiveConfig(cfg) ==
    [aspectRatio |-> ConfigOr(cfg.defaultAspectRatio, "16:9"),
     model |-> ConfigOr(cfg.defaultModel, DEFAULT_MODEL)]

\* Outbound messages (ExtensionMessage)
MsgInit(hasApiKey, prePrompts, selection, cfg) ==
    [command |-> "init", hasApiKey |-> hasApiKey, prePrompts |-> prePrompts,
     selection |-> selection, config |-> cfg]

MsgGenerating == [command |-> "generating"]

MsgGenerated(image) == [command |-> "generated", image |-> image]

MsgError(message) == [command |-> "error", message |-> message]

MsgPrePromptsUpdated(prePrompts) ==
    [command |-> "prePromptsUpdated", prePrompts |-> prePrompts]

MsgSelectionChanged(selection) ==
    [command |-> "selectionChanged", selection |-> selection]

MsgApiKeyUpdated(hasApiKey) == [command |-> "apiKeyUpdated", hasApiKey |-> hasApiKey]

MsgConfirmDelete(id) == [command |-> "confirmDelete", id |-> id]

\* error instanceof Error ? error.message : fallback
MessageOf(error, fallback) == IF error.isError THEN error.message ELSE fallback

\* StorageManager.hasApiKey on the value secrets.get returned
HasApiKey(key) == Truthy(key) /\ Len(key[1]) > 0

\* A handler suspended at an await, and a handler that has completed
Task(cmd, pc, arg, log, loc) ==
    [cmd |-> cmd, pc |-> pc, arg |-> arg, log |-> log, loc |-> loc]

\* failure: what a collaborator (store, remote API, dialog) threw at it, if any
Completed(cmd, arg, log, outcome, loc, failure) ==
    [cmd |-> cmd, arg |-> arg, log |-> log, outcome |-> outcome, loc |-> loc,
     failure |-> failure]

NoLocals == [none |-> TRUE]

Without(seq, i) == SubSeq(seq, 1, i - 1) \o SubSeq(seq, i + 1, Len(seq))

\* GenerateRequest with a content that is only tested for being empty
GenerateRequestUntrimmed(arg, c, ed, cfg, cl) ==
    LET prePrompt == GetPrePromptById(c, arg.prePromptId)
        selection == GetSelectedText(ed)
        content == IF arg.useSelection /\ selection # None
                   THEN selection[1].text
                   ELSE arg.prompt
    IN  IF prePrompt = None THEN Thrown(Err(MSG_TYPE_NOT_FOUND))
        ELSE IF content = "" THEN Thrown(Err(MSG_ENTER_DESCRIPTION))
        ELSE GenerateDiagramCall(cl, prePrompt[1].prompt, content,
                                 [aspectRatio |-> Some(EffectiveConfig(cfg).aspectRatio),
                                  model |-> Some(EffectiveConfig(cfg).model)])

\* GenerateRequest with a selection that is used whatever useSelection is
GenerateRequestAlwaysSelection(arg, c, ed, cfg, cl) ==
    LET prePrompt == GetPrePromptById(c, arg.prePromptId)
        selection == GetSelectedText(ed)
        content == IF selection # None THEN selection[1].text ELSE arg.prompt
    IN  IF prePrompt = None THEN Thrown(Err(MSG_TYPE_NOT_FOUND))
        ELSE IF TrimIsEmpty(content) THEN Thrown(Err(MSG_ENTER_DESCRIPTION))
        ELSE GenerateDiagramCall(cl, prePrompt[1].prompt, content,
                                 [aspectRatio |-> Some(EffectiveConfig(cfg).aspectRatio),
                                  model |-> Some(EffectiveConfig(cfg).model)])

\* handleGenerate from the template lookup to the call of generateDiagram:
\* the error it throws, or the request generateDiagram sends
GenerateRequest(arg, c, ed, cfg, cl) ==
    LET prePrompt == GetPrePromptById(c, arg.prePromptId)
        selection == GetSelectedText(ed)
        content == IF arg.useSelection /\ selection # None
                   THEN selection[1].text
                   ELSE arg.prompt
    IN  IF prePrompt = None THEN Thrown(Err(MSG_TYPE_NOT_FOUND))
        ELSE IF TrimIsEmpty(content) THEN Thrown(Err(MSG_ENTER_DESCRIPTION))
        ELSE GenerateDiagramCall(cl, prePrompt[1].prompt, content,
                                 [aspectRatio |-> Some(EffectiveConfig(cfg).aspectRatio),
                                  model |-> Some(EffectiveConfig(cfg).model)])

(***************************************************************************)
(* Inputs of the session: what inbound messages carry and what the         *)
(* collaborators answer.                                                   *)
(***************************************************************************)
Keys == {"key-A"}

InitialSecrets == {None, Some("key-0")}

Prompts == {"", "login flow"}

EditorSelections == {None, Some("class Login {}")}

\* ids an inbound message may name: a built-in, an unknown one, a stored one
MessageIds(c) == {"flowchart", "no-such-type"} \cup {c[i].id : i \in 1..Len(c)}

\* what a rejected promise of a collaborator carries
IoFailures == {Err("storage unavailable")}

\* None: the awaited call succeeds
IoOutcomes == {None} \cup {Some(e) : e \in IoFailures}

RemoteAnswers ==
    {Response(Some(<<InlinePart("QQ==", Some("image/png"))>>)),
     Response(None),
     ApiThrows(Err("fetch failed"))}

NoLast == Completed("none", NoLocals, <<>>, "none", NoLocals, None)

(***************************************************************************)
(* The script of the webview: its state, the elements it shows and         *)
(* disables, and what it does with a message of the host. A message in     *)
(* the inbox is kept with the inbound message (of) whose handler posted    *)
(* it; issued, outstanding, succeeded, currentOf and late are records of   *)
(* the session that the script does not keep.                              *)
(***************************************************************************)
NewView ==
    [disposed |-> FALSE,                 \* the view's onDidDispose has fired
     loaded |-> FALSE,                   \* the script has run and posted ready
     inbox |-> <<>>,                     \* posted to the webview, not yet handled
     hasApiKey |-> FALSE,                \* state.hasApiKey
     prePrompts |-> <<>>,                \* state.prePrompts
     selection |-> None,                 \* state.selection
     currentImage |-> None,              \* state.currentImage
     prepromptSelect |-> "",             \* el.prepromptSelect.value
     loading |-> FALSE,                  \* el.loading is shown
     error |-> None,                     \* el.error is shown, with this text
     result |-> FALSE,                   \* el.result is shown
     generateBtnDisabled |-> FALSE,      \* el.generateBtn.disabled
     generateSelectionBtnDisabled |-> FALSE,
     issued |-> <<>>,                    \* the prompts of the generate messages sent
     outstanding |-> {},                 \* prompts announced by generating, unanswered
     succeeded |-> {},                   \* prompts whose generated was handled
     currentOf |-> None,                 \* the prompt currentImage was generated for
     late |-> <<>>]                      \* posted to the view after its disposal

ShowLoading(v) ==
    [v EXCEPT !.loading = TRUE,
              !.error = None,
              !.result = FALSE,
              !.generateBtnDisabled = TRUE,
              !.generateSelectionBtnDisabled = TRUE]

HideLoading(v) ==
    [v EXCEPT !.loading = FALSE,
              !.generateBtnDisabled = FALSE,
              !.generateSelectionBtnDisabled = FALSE]

ShowError(v, message) ==
    [HideLoading(v) EXCEPT !.error = Some(message), !.result = FALSE]

ShowResult(v, image) ==
    [HideLoading(v) EXCEPT !.error = None,
                           !.currentImage = Some(image),
                           !.result = TRUE]

\* the options are rebuilt; the value is kept if it is still an option, else
\* it is the first option
UpdateDropdown(v) ==
    [v EXCEPT !.prepromptSelect =
         IF \E i \in 1..Len(v.prePrompts) : v.prePrompts[i].id = @ THEN @
         ELSE IF Len(v.prePrompts) > 0 THEN v.prePrompts[1].id
         ELSE ""]

\* the delete button is hidden: the selected option is a built-in template
\* or no template of state.prePrompts
DeleteHidden(v) ==
    LET selected == Find(v.prePrompts, v.prepromptSelect)
    IN  IF selected = None THEN TRUE ELSE selected[1].isDefault

\* window's message listener, but for the message confirmDelete sends back
OnMessage(v, message) ==
    CASE message.command = "init" ->
             UpdateDropdown([v EXCEPT !.hasApiKey = message.hasApiKey,
                                      !.prePrompts = message.prePrompts,
                                      !.selection = message.selection])
      [] message.command = "generating" -> ShowLoading(v)
      [] message.command = "generated" -> ShowResult(v, message.image)
      [] message.command = "error" -> ShowError(v, message.message)
      [] message.command = "prePromptsUpdated" ->
             UpdateDropdown([v EXCEPT !.prePrompts = message.prePrompts])
      [] message.command = "selectionChanged" ->
             [v EXCEPT !.selection = message.selection]
      [] message.command = "apiKeyUpdated" ->
             [v EXCEPT !.hasApiKey = message.hasApiKey]
      [] OTHER -> v

\* what handling the message m, posted by the handler of m.of, tells of the
\* generate messages sent
Observe(v, m) ==
    IF m.of.command # "generate" THEN v
    ELSE CASE m.msg.command = "generating" ->
                  [v EXCEPT !.outstanding = @ \cup {m.of.prompt}]
           [] m.msg.command = "generated" ->
                  [v EXCEPT !.outstanding = @ \ {m.of.prompt},
                            !.succeeded = @ \cup {m.of.prompt},
                            !.currentOf = Some(m.of.prompt)]
           [] m.msg.command = "error" ->
                  [v EXCEPT !.outstanding = @ \ {m.of.prompt}]
           [] OTHER -> v

Init ==
    /\ secret \in InitialSecrets
    /\ client = None
    /\ custom = <<>>
    /\ now = 0
    /\ editor = None
    /\ tasks = EmptyBag
    /\ last = NoLast
    /\ received = 0
    /\ adds = 0
    /\ deletes = 0
    /\ keyDeleted = FALSE
    /\ config = [defaultAspectRatio |-> Some("16:9"), defaultModel |-> Some(DEFAULT_MODEL)]
    /\ view = NewView

\* an inbound message or host event is accepted
Accept == received < MaxReceived /\ received' = received + 1

\* the handler suspends at an await
Suspend(u) ==
    /\ BagCardinality(tasks) < MaxInFlight
    /\ tasks' = tasks (+) SetToBag({u})
    /\ last' = NoLast

\* the suspended handler t goes on to its next await, as u
Resuspend(t, u) ==
    /\ tasks' = (tasks (-) SetToBag({t})) (+) SetToBag({u})
    /\ last' = NoLast

\* the handler started by this message completes without suspending
FinishNew(cmd, arg, log, outcome, loc) ==
    tasks' = tasks /\ last' = Completed(cmd, arg, log, outcome, loc, None)

\* the suspended handler t completes
Finish(t, log, outcome, failure) ==
    /\ tasks' = tasks (-) SetToBag({t})
    /\ last' = Completed(t.cmd, t.arg, log, outcome, t.loc, failure)

(***************************************************************************)
(* ready                                                                   *)
(***************************************************************************)
RecvReady ==
    /\ Accept
    /\ Suspend(Task("ready", "hasApiKey", [command |-> "ready"], <<>>, NoLocals))
    /\ UNCHANGED <<secret, client, custom, now, editor, adds, deletes, keyDeleted,
                   config>>

\* storageManager.hasApiKey() answers; prePrompts, selection and config are
\* read; with a key the handler awaits storageManager.getApiKey()
ReadyHasApiKey(t, io) ==
    /\ t.cmd = "ready" /\ t.pc = "hasApiKey"
    /\ IF io # None
       THEN Finish(t, t.log, "rejected", io)
       ELSE IF HasApiKey(secret)
            THEN Resuspend(t, Task("ready", "getApiKey", t.arg, t.log,
                                   [hasApiKey |-> TRUE,
                                    prePrompts |-> GetAllPrePrompts(custom),
                                    selection |-> GetSelectedText(editor)]))
            ELSE Finish(t, Append(t.log,
                                  MsgInit(FALSE, GetAllPrePrompts(custom),
                                          GetSelectedText(editor),
                                          EffectiveConfig(config))),
                        "resolved", None)
    /\ UNCHANGED <<secret, client, custom, now, editor, received, adds, deletes,
                   keyDeleted, config>>

\* storageManager.getApiKey() answers; the client is initialized when the key
\* is truthy, and init is posted
ReadyGetApiKey(t, io) ==
    /\ t.cmd = "ready" /\ t.pc = "getApiKey"
    /\ IF io # None
       THEN Finish(t, t.log, "rejected", io) /\ client' = client
       ELSE /\ client' = IF Truthy(secret) THEN Some(secret[1]) ELSE client
            /\ Finish(t, Append(t.log,
                                MsgInit(t.loc.hasApiKey, t.loc.prePrompts,
                                        t.loc.selection, EffectiveConfig(config))),
                      "resolved", None)
    /\ UNCHANGED <<secret, custom, now, editor, received, adds, deletes, keyDeleted,
                   config>>

(***************************************************************************)
(* generate                                                                *)
(***************************************************************************)
\* handleGenerate once the client cl is initialized: it posts an error and
\* completes, or calls generateDiagram and awaits the remote API
GenerateProceed(t, cl, finish(_, _), suspend(_)) ==
    LET req == GenerateRequest(t.arg, custom, editor, config, cl)
    IN  IF req.ok
        THEN suspend(Task("generate", "remote", t.arg, t.log,
                          [request |-> req.value, afterDelete |-> t.loc.afterDelete]))
        ELSE finish(Append(t.log, MsgError(MessageOf(req.error, "An error occurred"))),
                    "resolved")

RecvGenerate(prompt, prePromptId, useSelection) ==
    /\ Accept
    /\ LET arg == [command |-> "generate", prompt |-> prompt,
                   prePromptId |-> prePromptId, useSelection |-> useSelection]
           t == Task("generate", "getApiKey", arg, <<MsgGenerating>>,
                     [afterDelete |-> keyDeleted, selectionAtReceipt |-> editor])
           finish(log, outcome) == FinishNew("generate", arg, log, outcome, t.loc)
       IN  IF ~IsInitialized(client)
           THEN Suspend(t)
           ELSE GenerateProceed(t, client, finish, Suspend)
    /\ UNCHANGED <<secret, client, custom, now, editor, adds, deletes, keyDeleted,
                   config>>

\* GenerateGetApiKey without the test of the key read
GenerateGetApiKeyUnchecked(t, io) ==
    /\ t.cmd = "generate" /\ t.pc = "getApiKey"
    /\ LET finish(log, outcome) == Finish(t, log, outcome, io)
           suspend(u) == Resuspend(t, u)
       IN  IF io # None
           THEN /\ finish(Append(t.log, MsgError(MessageOf(io[1], "An error occurred"))),
                          "resolved")
                /\ client' = client
           ELSE /\ client' = secret
                /\ GenerateProceed(t, secret, finish, suspend)
    /\ UNCHANGED <<secret, custom, now, editor, received, adds, deletes, keyDeleted,
                   config>>

\* storageManager.getApiKey() answers
GenerateGetApiKey(t, io) ==
    /\ t.cmd = "generate" /\ t.pc = "getApiKey"
    /\ LET finish(log, outcome) == Finish(t, log, outcome, io)
           suspend(u) == Resuspend(t, u)
       IN  IF io # None
           THEN /\ finish(Append(t.log, MsgError(MessageOf(io[1], "An error occurred"))),
                          "resolved")
                /\ client' = client
           ELSE IF ~Truthy(secret)
           THEN /\ finish(Append(t.log, MsgError(MSG_SET_KEY_FIRST)), "resolved")
                /\ client' = client
           ELSE /\ client' = Some(secret[1])
                /\ GenerateProceed(t, Some(secret[1]), finish, suspend)
    /\ UNCHANGED <<secret, custom, now, editor, received, adds, deletes, keyDeleted,
                   config>>

\* GenerateRemote with the request sent again when the remote API throws
GenerateRemoteRetries(t, api) ==
    /\ t.cmd = "generate" /\ t.pc = "remote"
    /\ LET res == GenerateDiagram(api)
       IN  IF api.kind = "throws"
           THEN Resuspend(t, t)
           ELSE Finish(t, Append(t.log,
                                 IF res.ok THEN MsgGenerated(res.value)
                                 ELSE MsgError(MessageOf(res.error, "An error occurred"))),
                       "resolved", None)
    /\ UNCHANGED <<secret, client, custom, now, editor, received, adds, deletes,
                   keyDeleted, config>>

\* GenerateRemote with a catch block that posts nothing
GenerateRemoteSilentCatch(t, api) ==
    /\ t.cmd = "generate" /\ t.pc = "remote"
    /\ LET res == GenerateDiagram(api)
       IN  Finish(t, IF res.ok THEN Append(t.log, MsgGenerated(res.value))
                     ELSE t.log,
                  "resolved", IF api.kind = "throws" THEN Some(api.error) ELSE None)
    /\ UNCHANGED <<secret, client, custom, now, editor, received, adds, deletes,
                   keyDeleted, config>>

\* the remote API answers the request of generateDiagram
GenerateRemote(t, api) ==
    /\ t.cmd = "generate" /\ t.pc = "remote"
    /\ LET res == GenerateDiagram(api)
       IN  Finish(t, Append(t.log,
                            IF res.ok THEN MsgGenerated(res.value)
                            ELSE MsgError(MessageOf(res.error, "An error occurred"))),
                  "resolved", IF api.kind = "throws" THEN Some(api.error) ELSE None)
    /\ UNCHANGED <<secret, client, custom, now, editor, received, adds, deletes,
                   keyDeleted, config>>

(***************************************************************************)
(* saveApiKey, deleteApiKey                                                *)
(***************************************************************************)
RecvSaveApiKey(apiKey) ==
    /\ Accept
    /\ Suspend(Task("saveApiKey", "store", [command |-> "saveApiKey", apiKey |-> apiKey],
                    <<>>, NoLocals))
    /\ keyDeleted' = FALSE
    /\ UNCHANGED <<secret, client, custom, now, editor, adds, deletes, config>>

\* SaveApiKeyStored with the client initialized before the store is written
SaveApiKeyStoredBindsFirst(t, io) ==
    /\ t.cmd = "saveApiKey" /\ t.pc = "store"
    /\ client' = Some(t.arg.apiKey)
    /\ IF io = None
       THEN /\ secret' = Some(t.arg.apiKey)
            /\ Finish(t, Append(t.log, MsgApiKeyUpdated(TRUE)), "resolved", None)
       ELSE /\ secret' = secret
            /\ Finish(t, Append(t.log,
                                MsgError(MessageOf(io[1], "Failed to save API key"))),
                      "resolved", io)
    /\ UNCHANGED <<custom, now, editor, received, adds, deletes, keyDeleted, config>>

\* SaveApiKeyStored with the key named in the error it posts
SaveApiKeyStoredEchoesKey(t, io) ==
    /\ t.cmd = "saveApiKey" /\ t.pc = "store"
    /\ IF io = None
       THEN /\ secret' = Some(t.arg.apiKey)
            /\ client' = Some(t.arg.apiKey)
            /\ Finish(t, Append(t.log, MsgApiKeyUpdated(TRUE)), "resolved", None)
       ELSE /\ UNCHANGED <<secret, client>>
            /\ Finish(t, Append(t.log,
                                MsgError("Failed to save API key " \o t.arg.apiKey)),
                      "resolved", io)
    /\ UNCHANGED <<custom, now, editor, received, adds, deletes, keyDeleted, config>>

\* storageManager.setApiKey(apiKey) answers
SaveApiKeyStored(t, io) ==
    /\ t.cmd = "saveApiKey" /\ t.pc = "store"
    /\ IF io = None
       THEN /\ secret' = Some(t.arg.apiKey)
            /\ client' = Some(t.arg.apiKey)
            /\ Finish(t, Append(t.log, MsgApiKeyUpdated(TRUE)), "resolved", None)
       ELSE /\ UNCHANGED <<secret, client>>
            /\ Finish(t, Append(t.log,
                                MsgError(MessageOf(io[1], "Failed to save API key"))),
                      "resolved", io)
    /\ UNCHANGED <<custom, now, editor, received, adds, deletes, keyDeleted, config>>

RecvDeleteApiKey ==
    /\ Accept
    /\ Suspend(Task("deleteApiKey", "delete", [command |-> "deleteApiKey"], <<>>,
                    NoLocals))
    /\ UNCHANGED <<secret, client, custom, now, editor, adds, deletes, keyDeleted,
                   config>>

\* DeleteApiKeyDeleted with a store whose delete rejects when no key is stored
DeleteApiKeyDeletedAbsentRejects(t, io) ==
    /\ t.cmd = "deleteApiKey" /\ t.pc = "delete"
    /\ tasks' = tasks (-) SetToBag({t})
    /\ IF io = None /\ secret # None
       THEN /\ secret' = None
            /\ keyDeleted' = (\A u \in BagToSet(tasks) : u.cmd # "saveApiKey")
            /\ last' = Completed(t.cmd, t.arg, Append(t.log, MsgApiKeyUpdated(FALSE)),
                                 "resolved", [hadKey |-> Truthy(secret)], None)
       ELSE /\ UNCHANGED <<secret, keyDeleted>>
            /\ last' = Completed(t.cmd, t.arg,
                                 Append(t.log, MsgError("Failed to delete API key")),
                                 "resolved", [hadKey |-> Truthy(secret)], io)
    /\ UNCHANGED <<client, custom, now, editor, received, adds, deletes, config>>

\* DeleteApiKeyDeleted with the client unbound when the key is deleted
DeleteApiKeyDeletedUnbinds(t, io) ==
    /\ t.cmd = "deleteApiKey" /\ t.pc = "delete"
    /\ tasks' = tasks (-) SetToBag({t})
    /\ IF io = None
       THEN /\ secret' = None
            /\ client' = None
            /\ keyDeleted' = (\A u \in BagToSet(tasks) : u.cmd # "saveApiKey")
            /\ last' = Completed(t.cmd, t.arg, Append(t.log, MsgApiKeyUpdated(FALSE)),
                                 "resolved", [hadKey |-> Truthy(secret)], None)
       ELSE /\ UNCHANGED <<secret, client, keyDeleted>>
            /\ last' = Completed(t.cmd, t.arg,
                                 Append(t.log,
                                        MsgError(MessageOf(io[1],
                                                           "Failed to delete API key"))),
                                 "resolved", [hadKey |-> Truthy(secret)], io)
    /\ UNCHANGED <<custom, now, editor, received, adds, deletes, config>>

\* storageManager.deleteApiKey() answers; hadKey: a key was stored until now
DeleteApiKeyDeleted(t, io) ==
    /\ t.cmd = "deleteApiKey" /\ t.pc = "delete"
    /\ tasks' = tasks (-) SetToBag({t})
    /\ IF io = None
       THEN /\ secret' = None
            /\ keyDeleted' = (\A u \in BagToSet(tasks) : u.cmd # "saveApiKey")
            /\ last' = Completed(t.cmd, t.arg, Append(t.log, MsgApiKeyUpdated(FALSE)),
                                 "resolved", [hadKey |-> Truthy(secret)], None)
       ELSE /\ UNCHANGED <<secret, keyDeleted>>
            /\ last' = Completed(t.cmd, t.arg,
                                 Append(t.log,
                                        MsgError(MessageOf(io[1],
                                                           "Failed to delete API key"))),
                                 "resolved", [hadKey |-> Truthy(secret)], io)
    /\ UNCHANGED <<client, custom, now, editor, received, adds, deletes, config>>

(***************************************************************************)
(* addPrePrompt, updatePrePrompt, deletePrePrompt, confirmDeletePrePrompt  *)
(*                                                                         *)
(* globalState.update(key, value) replaces the value globalState.get       *)
(* returns when it is called and answers later; when it fails (io) the     *)
(* value is not replaced.                                                  *)
(***************************************************************************)
\* t is what Date.now() returns: the date of the previous call or a later one
RecvAddPrePrompt(name, prompt, t, io) ==
    /\ Accept
    /\ now' = t
    /\ custom' = IF io = None THEN AddPrePrompt(custom, t, name, prompt).list ELSE custom
    /\ adds' = IF io = None THEN adds + 1 ELSE adds
    /\ Suspend(Task("addPrePrompt", "update",
                    [command |-> "addPrePrompt", name |-> name, prompt |-> prompt],
                    <<>>, [io |-> io, ret |-> TRUE]))
    /\ UNCHANGED <<secret, client, editor, deletes, keyDeleted, config>>

\* RecvDeletePrePrompt that posts the list when deletePrePrompt returns false
RecvDeletePrePromptNoThrow(id, io) ==
    /\ Accept
    /\ LET arg == [command |-> "deletePrePrompt", id |-> id]
           r == DeletePrePrompt(custom, id)
       IN  IF r.ret
           THEN /\ custom' = IF io = None THEN r.list ELSE custom
                /\ deletes' = IF io = None THEN deletes + 1 ELSE deletes
                /\ Suspend(Task("deletePrePrompt", "update", arg, <<>>,
                                [io |-> io, ret |-> TRUE]))
           ELSE /\ UNCHANGED <<custom, deletes>>
                /\ FinishNew("deletePrePrompt", arg,
                             <<MsgPrePromptsUpdated(GetAllPrePrompts(custom))>>,
                             "resolved", [io |-> None, ret |-> FALSE])
    /\ UNCHANGED <<secret, client, now, editor, adds, keyDeleted, config>>

RecvDeletePrePrompt(id, io) ==
    /\ Accept
    /\ LET arg == [command |-> "deletePrePrompt", id |-> id]
           r == DeletePrePrompt(custom, id)
       IN  IF r.ret
           THEN /\ custom' = IF io = None THEN r.list ELSE custom
                /\ deletes' = IF io = None THEN deletes + 1 ELSE deletes
                /\ Suspend(Task("deletePrePrompt", "update", arg, <<>>,
                                [io |-> io, ret |-> TRUE]))
           ELSE /\ UNCHANGED <<custom, deletes>>
                /\ FinishNew("deletePrePrompt", arg, <<MsgError(MSG_CANNOT_DELETE)>>,
                             "resolved", [io |-> None, ret |-> FALSE])
    /\ UNCHANGED <<secret, client, now, editor, adds, keyDeleted, config>>

\* RecvUpdatePrePrompt without the test of what updatePrePrompt returned
RecvUpdatePrePromptUnchecked(id, name, prompt, io) ==
    /\ Accept
    /\ LET arg == [command |-> "updatePrePrompt", id |-> id, name |-> name,
                   prompt |-> prompt]
           r == UpdatePrePrompt(custom, id, name, prompt)
       IN  /\ custom' = IF io = None THEN r.list ELSE custom
           /\ Suspend(Task("updatePrePrompt", "update", arg, <<>>,
                           [io |-> io, ret |-> r.ret]))
    /\ UNCHANGED <<secret, client, now, editor, adds, deletes, keyDeleted, config>>

RecvUpdatePrePrompt(id, name, prompt, io) ==
    /\ Accept
    /\ LET arg == [command |-> "updatePrePrompt", id |-> id, name |-> name,
                   prompt |-> prompt]
           r == UpdatePrePrompt(custom, id, name, prompt)
       IN  IF r.ret
           THEN /\ custom' = IF io = None THEN r.list ELSE custom
                /\ Suspend(Task("updatePrePrompt", "update", arg, <<>>,
                                [io |-> io, ret |-> TRUE]))
           ELSE /\ custom' = custom
                /\ FinishNew("updatePrePrompt", arg, <<MsgError(MSG_CANNOT_UPDATE)>>,
                             "resolved", [io |-> None, ret |-> FALSE])
    /\ UNCHANGED <<secret, client, now, editor, adds, deletes, keyDeleted, config>>

\* globalState.update answers to handleAddPrePrompt, handleDeletePrePrompt or
\* handleUpdatePrePrompt, which posts the list as it is now, or the error
PrePromptsStored(t) ==
    /\ t.pc = "update"
    /\ LET fallback == CASE t.cmd = "addPrePrompt" -> "Failed to add diagram type"
                         [] t.cmd = "deletePrePrompt" -> "Failed to delete diagram type"
                         [] OTHER -> "Failed to update diagram type"
       IN  IF t.loc.io = None
           THEN Finish(t, Append(t.log,
                                 MsgPrePromptsUpdated(GetAllPrePrompts(custom))),
                       "resolved", None)
           ELSE Finish(t, Append(t.log,
                                 MsgError(MessageOf(t.loc.io[1], fallback))),
                       "resolved", t.loc.io)
    /\ UNCHANGED <<secret, client, custom, now, editor, received, adds, deletes,
                   keyDeleted, config>>

RecvConfirmDeletePrePrompt(id) ==
    /\ Accept
    /\ LET arg == [command |-> "confirmDeletePrePrompt", id |-> id]
       IN  IF GetPrePromptById(custom, id) = None
           THEN FinishNew("confirmDeletePrePrompt", arg, <<>>, "resolved", NoLocals)
           ELSE Suspend(Task("confirmDeletePrePrompt", "dialog", arg, <<>>,
                             [name |-> GetPrePromptById(custom, id)[1].name]))
    /\ UNCHANGED <<secret, client, custom, now, editor, adds, deletes, keyDeleted,
                   config>>

\* ConfirmDeleteAnswered with confirmDelete posted whatever the answer is
ConfirmDeleteAnsweredAnyAnswer(t, answer, io) ==
    /\ t.cmd = "confirmDeletePrePrompt" /\ t.pc = "dialog"
    /\ tasks' = tasks (-) SetToBag({t})
    /\ LET loc == [name |-> t.loc.name, answer |-> IF io = None THEN answer ELSE None]
       IN  last' = IF io # None
                   THEN Completed(t.cmd, t.arg, t.log, "rejected", loc, io)
                   ELSE Completed(t.cmd, t.arg, Append(t.log, MsgConfirmDelete(t.arg.id)),
                                  "resolved", loc, None)
    /\ UNCHANGED <<secret, client, custom, now, editor, received, adds, deletes,
                   keyDeleted, config>>

\* showWarningMessage answers: the button chosen (None: dismissed), or it fails
ConfirmDeleteAnswered(t, answer, io) ==
    /\ t.cmd = "confirmDeletePrePrompt" /\ t.pc = "dialog"
    /\ tasks' = tasks (-) SetToBag({t})
    /\ LET loc == [name |-> t.loc.name, answer |-> IF io = None THEN answer ELSE None]
       IN  last' = IF io # None
                   THEN Completed(t.cmd, t.arg, t.log, "rejected", loc, io)
                   ELSE IF answer = Some("Delete")
                   THEN Completed(t.cmd, t.arg, Append(t.log, MsgConfirmDelete(t.arg.id)),
                                  "resolved", loc, None)
                   ELSE Completed(t.cmd, t.arg, t.log, "resolved", loc, None)
    /\ UNCHANGED <<secret, client, custom, now, editor, received, adds, deletes,
                   keyDeleted, config>>

(***************************************************************************)
(* getSelection and the editor's selection-change event                    *)
(***************************************************************************)
RecvGetSelection ==
    /\ Accept
    /\ FinishNew("getSelection", [command |-> "getSelection"],
                 <<MsgSelectionChanged(GetSelectedText(editor))>>, "resolved", NoLocals)
    /\ UNCHANGED <<secret, client, custom, now, editor, adds, deletes, keyDeleted,
                   config>>

\* SelectionChanged held back while a generate handler is suspended
SelectionChangedWhenIdle(sel) ==
    /\ Accept
    /\ \A t \in BagToSet(tasks) : t.cmd # "generate"
    /\ sel # editor
    /\ editor' = sel
    /\ FinishNew("onDidChangeTextEditorSelection", [selection |-> sel],
                 <<MsgSelectionChanged(GetSelectedText(sel))>>, "resolved", NoLocals)
    /\ UNCHANGED <<secret, client, custom, now, adds, deletes, keyDeleted, config>>

SelectionChanged(sel) ==
    /\ Accept
    /\ sel # editor
    /\ editor' = sel
    /\ FinishNew("onDidChangeTextEditorSelection", [selection |-> sel],
                 <<MsgSelectionChanged(GetSelectedText(sel))>>, "resolved", NoLocals)
    /\ UNCHANGED <<secret, client, custom, now, adds, deletes, keyDeleted, config>>

(***************************************************************************)
(* The session: inbound messages and host events arrive in any order, and  *)
(* every suspended handler resumes when its awaited call answers.          *)
(***************************************************************************)
Next ==
    \/ RecvReady
       /\ UNCHANGED view
    \/ \E t \in BagToSet(tasks), io \in IoOutcomes : ReadyHasApiKey(t, io)
       /\ UNCHANGED view
    \/ \E t \in BagToSet(tasks), io \in IoOutcomes : ReadyGetApiKey(t, io)
       /\ UNCHANGED view
    \/ \E p \in Prompts, id \in MessageIds(custom), u \in BOOLEAN : RecvGenerate(p, id, u)
       /\ UNCHANGED view
    \/ \E t \in BagToSet(tasks), io \in IoOutcomes : GenerateGetApiKey(t, io)
       /\ UNCHANGED view
    \/ \E t \in BagToSet(tasks), api \in RemoteAnswers : GenerateRemote(t, api)
       /\ UNCHANGED view
    \/ \E k \in Keys : RecvSaveApiKey(k)
       /\ UNCHANGED view
    \/ \E t \in BagToSet(tasks), io \in IoOutcomes : SaveApiKeyStored(t, io)
       /\ UNCHANGED view
    \/ RecvDeleteApiKey
       /\ UNCHANGED view
    \/ \E t \in BagToSet(tasks), io \in IoOutcomes : DeleteApiKeyDeleted(t, io)
       /\ UNCHANGED view
    \/ \E t \in {now, now + 1}, io \in IoOutcomes :
           RecvAddPrePrompt("My Type", "hand-drawn sketch", t, io)
       /\ UNCHANGED view
    \/ \E id \in MessageIds(custom), io \in IoOutcomes : RecvDeletePrePrompt(id, io)
       /\ UNCHANGED view
    \/ \E id \in MessageIds(custom), io \in IoOutcomes :
           RecvUpdatePrePrompt(id, "Renamed", "blueprint style", io)
       /\ UNCHANGED view
    \/ \E t \in BagToSet(tasks) : PrePromptsStored(t)
       /\ UNCHANGED view
    \/ \E id \in MessageIds(custom) : RecvConfirmDeletePrePrompt(id)
       /\ UNCHANGED view
    \/ \E t \in BagToSet(tasks), a \in {None, Some("Delete")}, io \in IoOutcomes :
           ConfirmDeleteAnswered(t, a, io)
       /\ UNCHANGED view
    \/ RecvGetSelection
       /\ UNCHANGED view
    \/ \E sel \in EditorSelections : SelectionChanged(sel)
       /\ UNCHANGED view

Spec == Init /\ [][Next]_vars

(***************************************************************************)
(* The image generation client on its own: calls of GeminiService's        *)
(* methods with every answer of the remote API.                            *)
(***************************************************************************)
PartKinds ==
    {TextPart,
     InlinePart("QQ==", Some("image/jpeg")),
     InlinePart("Qg==", None)}

RECURSIVE SeqsUpTo(_, _)
SeqsUpTo(S, n) ==
    IF n = 0 THEN {<<>>}
    ELSE SeqsUpTo(S, n - 1) \cup
         {Append(q, x) : q \in {r \in SeqsUpTo(S, n - 1) : Len(r) = n - 1}, x \in S}

ApiErrorMessages ==
    {"API key not valid. Please pass a valid API key.",
     "You exceeded your current quota, please check your plan and billing details.",
     "Resource exhausted: rate limit reached",
     "API key quota exceeded",
     "API key rate limit reached",
     "Failed to generate content",
     "fetch failed",
     ""}

ApiAnswers ==
    {Response(Some(parts)) : parts \in SeqsUpTo(PartKinds, MaxParts)}
        \cup {Response(None)}
        \cup {ApiThrows(Err(m)) : m \in ApiErrorMessages}
        \cup {ApiThrows(NonError)}

ImageConfigs ==
    {[aspectRatio |-> None, model |-> None],
     [aspectRatio |-> Some("1:1"), model |-> Some("gemini-2.5-flash-image")]}

\* the template prompts and the contents generateDiagram is called with
GeminiFragments == {DEFAULT_PREPROMPTS[1].prompt, " sketch"}

GeminiContents == {" login flow\n"}

\* the keys initialize is called with
GeminiKeys == {"key-A", "key-B"}

GeminiInitialize(apiKey) ==
    /\ Accept
    /\ client' = Some(apiKey)
    /\ tasks' = tasks
    /\ last' = Completed("initialize", [apiKey |-> apiKey], <<>>, "returned", NoLocals,
                         None)
    /\ UNCHANGED <<secret, custom, now, editor, adds, deletes, keyDeleted, config>>

GeminiGenerateDiagram(diagramTypePrompt, userContent, imageConfig) ==
    /\ Accept
    /\ LET arg == [diagramTypePrompt |-> diagramTypePrompt,
                   userContent |-> userContent, config |-> imageConfig]
           call == GenerateDiagramCall(client, diagramTypePrompt, userContent, imageConfig)
       IN  IF call.ok
           THEN Suspend(Task("generateDiagram", "remote", arg, <<>>,
                             [request |-> call.value]))
           ELSE FinishNew("generateDiagram", arg, <<>>, "rejected",
                          [requested |-> FALSE, result |-> call])
    /\ UNCHANGED <<secret, client, custom, now, editor, adds, deletes, keyDeleted,
                   config>>

\* the remote API answers the request of generateDiagram
GeminiAnswered(t, api) ==
    /\ t.cmd = "generateDiagram" /\ t.pc = "remote"
    /\ tasks' = tasks (-) SetToBag({t})
    /\ last' = Completed("generateDiagram", t.arg, <<>>,
                         IF GenerateDiagram(api).ok THEN "resolved" ELSE "rejected",
                         [requested |-> TRUE, request |-> t.loc.request,
                          api |-> api, result |-> GenerateDiagram(api)],
                         IF api.kind = "throws" THEN Some(api.error) ELSE None)
    /\ UNCHANGED <<secret, client, custom, now, editor, received, adds, deletes,
                   keyDeleted, config>>

NextGemini ==
    \/ \E k \in GeminiKeys : GeminiInitialize(k)
       /\ UNCHANGED view
    \/ \E f \in GeminiFragments, c \in GeminiContents, cfg \in ImageConfigs :
           GeminiGenerateDiagram(f, c, cfg)
       /\ UNCHANGED view
    \/ \E t \in BagToSet(tasks), api \in ApiAnswers : GeminiAnswered(t, api)
       /\ UNCHANGED view

SpecGemini == Init /\ [][NextGemini]_vars

(***************************************************************************)
(* The template catalog on its own: calls of PrePromptService's methods    *)
(* with any name, prompt and id. addPrePrompt, deletePrePrompt and         *)
(* updatePrePrompt return when globalState.update has answered.            *)
(***************************************************************************)
CatalogNames == {"", "My Type"}

CatalogPrompts == {"", "hand-drawn sketch"}

\* ids a call may name: the first and the last built-in, an unknown one, the
\* stored ones
CatalogIds(c) ==
    {DEFAULT_PREPROMPTS[1].id, DEFAULT_PREPROMPTS[Len(DEFAULT_PREPROMPTS)].id}
        \cup {"no-such-type"} \cup {c[i].id : i \in 1..Len(c)}

\* the catalog never reads the secret store
InitCatalog == Init /\ secret = None

\* got: what getPrePromptById finds under the id of the returned template in
\* the list addPrePrompt has stored
CatalogAdd(name, prompt, t, io) ==
    /\ Accept
    /\ now' = t
    /\ custom' = IF io = None THEN AddPrePrompt(custom, t, name, prompt).list ELSE custom
    /\ adds' = IF io = None THEN adds + 1 ELSE adds
    /\ Suspend(Task("addPrePrompt", "returns", [name |-> name, prompt |-> prompt], <<>>,
                    [io |-> io, ret |-> AddPrePrompt(custom, t, name, prompt).ret,
                     got |-> GetPrePromptById(custom',
                                              AddPrePrompt(custom, t, name, prompt).ret.id)]))
    /\ UNCHANGED <<secret, client, editor, deletes, keyDeleted, config>>

CatalogDelete(id, io) ==
    /\ Accept
    /\ LET r == DeletePrePrompt(custom, id)
       IN  IF r.ret
           THEN /\ custom' = IF io = None THEN r.list ELSE custom
                /\ deletes' = IF io = None THEN deletes + 1 ELSE deletes
                /\ Suspend(Task("deletePrePrompt", "returns", [id |-> id], <<>>,
                                [io |-> io, ret |-> TRUE]))
           ELSE /\ UNCHANGED <<custom, deletes>>
                /\ FinishNew("deletePrePrompt", [id |-> id], <<>>, "resolved",
                             [io |-> None, ret |-> FALSE])
    /\ UNCHANGED <<secret, client, now, editor, adds, keyDeleted, config>>

CatalogUpdate(id, name, prompt, io) ==
    /\ Accept
    /\ LET r == UpdatePrePrompt(custom, id, name, prompt)
           arg == [id |-> id, name |-> name, prompt |-> prompt]
       IN  IF r.ret
           THEN /\ custom' = IF io = None THEN r.list ELSE custom
                /\ Suspend(Task("updatePrePrompt", "returns", arg, <<>>,
                                [io |-> io, ret |-> TRUE]))
           ELSE /\ custom' = custom
                /\ FinishNew("updatePrePrompt", arg, <<>>, "resolved",
                             [io |-> None, ret |-> FALSE])
    /\ UNCHANGED <<secret, client, now, editor, adds, deletes, keyDeleted, config>>

\* globalState.update answers and the call returns (or rejects)
CatalogReturns(t) ==
    /\ t.pc = "returns"
    /\ tasks' = tasks (-) SetToBag({t})
    /\ last' = Completed(t.cmd, t.arg, <<>>,
                         IF t.loc.io = None THEN "resolved" ELSE "rejected",
                         t.loc, t.loc.io)
    /\ UNCHANGED <<secret, client, custom, now, editor, received, adds, deletes,
                   keyDeleted, config>>

NextCatalog ==
    \/ \E name \in CatalogNames, prompt \in CatalogPrompts, t \in {now, now + 1},
          io \in IoOutcomes : CatalogAdd(name, prompt, t, io)
       /\ UNCHANGED view
    \/ \E id \in CatalogIds(custom), io \in IoOutcomes : CatalogDelete(id, io)
       /\ UNCHANGED view
    \/ \E id \in CatalogIds(custom), io \in IoOutcomes :
           CatalogUpdate(id, "Renamed", "blueprint style", io)
       /\ UNCHANGED view
    \/ \E t \in BagToSet(tasks) : CatalogReturns(t)
       /\ UNCHANGED view

SpecCatalog == InitCatalog /\ [][NextCatalog]_vars

(***************************************************************************)
(* Generation and the credential on their own: the generate, saveApiKey    *)
(* and deleteApiKey handlers and the selection-change event, with empty    *)
(* and whitespace-only prompts and selections.                             *)
(***************************************************************************)
GeneratePrompts == {"", " \n", "login flow"}

GenerateSelections == {None, Some(" \t"), Some("class Login {}")}

NextGenerate ==
    \/ \E p \in GeneratePrompts, id \in MessageIds(custom), u \in BOOLEAN :
           RecvGenerate(p, id, u)
       /\ UNCHANGED view
    \/ \E t \in BagToSet(tasks), io \in IoOutcomes : GenerateGetApiKey(t, io)
       /\ UNCHANGED view
    \/ \E t \in BagToSet(tasks), api \in RemoteAnswers : GenerateRemote(t, api)
       /\ UNCHANGED view
    \/ \E sel \in GenerateSelections : SelectionChanged(sel)
       /\ UNCHANGED view
    \/ \E k \in Keys : RecvSaveApiKey(k)
       /\ UNCHANGED view
    \/ \E t \in BagToSet(tasks), io \in IoOutcomes : SaveApiKeyStored(t, io)
       /\ UNCHANGED view
    \/ RecvDeleteApiKey
       /\ UNCHANGED view
    \/ \E t \in BagToSet(tasks), io \in IoOutcomes : DeleteApiKeyDeleted(t, io)
       /\ UNCHANGED view

SpecGenerate == Init /\ [][NextGenerate]_vars

(***************************************************************************)
(* The selection snapshot on its own: selection-change events and          *)
(* getSelection messages, the selected text having few lines, about        *)
(* MAX_LINES lines or many more.                                           *)
(***************************************************************************)
\* the lines "1", "2", ..., "n"
NumberedLines(n) == [i \in 1..n |-> ToString(i)]

\* the text whose split("\n") is lines
RECURSIVE Join(_)
Join(lines) ==
    IF Len(lines) = 0 THEN ""
    ELSE IF Len(lines) = 1 THEN lines[1]
    ELSE Join(SubSeq(lines, 1, Len(lines) \div 2)) \o "\n"
             \o Join(SubSeq(lines, Len(lines) \div 2 + 1, Len(lines)))

SelectionLineCounts == {1, 2, 99, 100, 101, 250}

\* the lines of the selected text: numbered lines, and texts with empty lines
SelectionLines ==
    {NumberedLines(n) : n \in SelectionLineCounts}
        \cup {<<"class Login {}">>, <<"", "">>, <<"a", "">>, <<"", "", "b">>}

\* no active editor or an empty selection, or a selected text
LongSelections == {None} \cup {Some(Join(lines)) : lines \in SelectionLines}

NextSelection ==
    \/ \E sel \in LongSelections : SelectionChanged(sel)
       /\ UNCHANGED view
    \/ RecvGetSelection
       /\ UNCHANGED view

SpecSelection == Init /\ [][NextSelection]_vars

(***************************************************************************)
(* Saving and opening an image: handleDownload and handleOpenInOS. They    *)
(* read and write nothing the other handlers use. What they show on the    *)
(* host (notifications) and the file they write are kept in loc.           *)
(***************************************************************************)
\* vscode.window.showInformationMessage / showErrorMessage
InfoNotification(message) == [kind |-> "information", message |-> message]

ErrorNotification(message) == [kind |-> "error", message |-> message]

Images == {"QQ=="}

Filenames == {"diagram.png"}

\* what showSaveDialog resolves to: undefined when cancelled, or the uri chosen
SaveDialogAnswers == {None, Some("/home/user/diagram.png")}

\* what the dialog, the file system or openExternal may throw
FileFailures == {Err("EACCES: permission denied"), NonError}

FileOutcomes == {None} \cup {Some(e) : e \in FileFailures}

RecvDownloadImage(base64, filename) ==
    /\ Accept
    /\ Suspend(Task("downloadImage", "showSaveDialog",
                    [command |-> "downloadImage", base64 |-> base64,
                     filename |-> filename],
                    <<>>, NoLocals))
    /\ UNCHANGED <<secret, client, custom, now, editor, adds, deletes, keyDeleted,
                   config>>

\* showSaveDialog answers: cancelled, a uri (writeFile is called), or it fails
DownloadDialogAnswered(t, uri, io) ==
    /\ t.cmd = "downloadImage" /\ t.pc = "showSaveDialog"
    /\ IF io # None
       THEN /\ tasks' = tasks (-) SetToBag({t})
            /\ last' = Completed(t.cmd, t.arg, t.log, "resolved",
                                 [uri |-> None, written |-> None,
                                  notifications |->
                                      <<ErrorNotification(
                                            MessageOf(io[1], "Failed to save diagram"))>>],
                                 io)
       ELSE IF uri = None
            THEN /\ tasks' = tasks (-) SetToBag({t})
                 /\ last' = Completed(t.cmd, t.arg, t.log, "resolved",
                                      [uri |-> None, written |-> None,
                                       notifications |-> <<>>],
                                      None)
            ELSE Resuspend(t, Task(t.cmd, "writeFile", t.arg, t.log, [uri |-> uri]))
    /\ UNCHANGED <<secret, client, custom, now, editor, received, adds, deletes,
                   keyDeleted, config>>

\* workspace.fs.writeFile answers
DownloadWritten(t, io) ==
    /\ t.cmd = "downloadImage" /\ t.pc = "writeFile"
    /\ tasks' = tasks (-) SetToBag({t})
    /\ last' =
           IF io = None
           THEN Completed(t.cmd, t.arg, t.log, "resolved",
                          [uri |-> t.loc.uri,
                           written |-> Some([path |-> t.loc.uri[1],
                                             data |-> t.arg.base64]),
                           notifications |->
                               <<InfoNotification("Diagram saved to " \o t.loc.uri[1])>>],
                          None)
           ELSE Completed(t.cmd, t.arg, t.log, "resolved",
                          [uri |-> t.loc.uri, written |-> None,
                           notifications |->
                               <<ErrorNotification(
                                     MessageOf(io[1], "Failed to save diagram"))>>],
                          io)
    /\ UNCHANGED <<secret, client, custom, now, editor, received, adds, deletes,
                   keyDeleted, config>>

\* `nanobanana_${Date.now()}.png` in os.tmpdir()
TempFile(t) == "/tmp/nanobanana_" \o ToString(t) \o ".png"

\* t is what Date.now() returns; io is what fs.writeFileSync does
RecvOpenInOS(base64, t, io) ==
    /\ Accept
    /\ now' = t
    /\ LET arg == [command |-> "openInOS", base64 |-> base64]
       IN  IF io # None
           THEN /\ tasks' = tasks
                /\ last' = Completed("openInOS", arg, <<>>, "resolved",
                                     [written |-> None, opened |-> FALSE,
                                      notifications |->
                                          <<ErrorNotification(
                                                MessageOf(io[1], "Failed to open diagram"))>>],
                                     io)
           ELSE Suspend(Task("openInOS", "openExternal", arg, <<>>,
                             [written |-> Some([path |-> TempFile(t), data |-> base64])]))
    /\ UNCHANGED <<secret, client, custom, editor, adds, deletes, keyDeleted, config>>

\* vscode.env.openExternal answers whether the file was opened, or it fails
OpenExternalAnswered(t, opened, io) ==
    /\ t.cmd = "openInOS" /\ t.pc = "openExternal"
    /\ tasks' = tasks (-) SetToBag({t})
    /\ last' =
           IF io = None
           THEN Completed(t.cmd, t.arg, t.log, "resolved",
                          [written |-> t.loc.written, opened |-> opened,
                           notifications |-> <<>>],
                          None)
           ELSE Completed(t.cmd, t.arg, t.log, "resolved",
                          [written |-> t.loc.written, opened |-> FALSE,
                           notifications |->
                               <<ErrorNotification(
                                     MessageOf(io[1], "Failed to open diagram"))>>],
                          io)
    /\ UNCHANGED <<secret, client, custom, now, editor, received, adds, deletes,
                   keyDeleted, config>>

NextFiles ==
    \/ \E b \in Images, f \in Filenames : RecvDownloadImage(b, f)
       /\ UNCHANGED view
    \/ \E t \in BagToSet(tasks), uri \in SaveDialogAnswers, io \in FileOutcomes :
           DownloadDialogAnswered(t, uri, io)
       /\ UNCHANGED view
    \/ \E t \in BagToSet(tasks), io \in FileOutcomes : DownloadWritten(t, io)
       /\ UNCHANGED view
    \/ \E b \in Images, t \in {now, now + 1}, io \in FileOutcomes : RecvOpenInOS(b, t, io)
       /\ UNCHANGED view
    \/ \E t \in BagToSet(tasks), opened \in BOOLEAN, io \in FileOutcomes :
           OpenExternalAnswered(t, opened, io)
       /\ UNCHANGED view

SpecFiles == Init /\ [][NextFiles]_vars

(***************************************************************************)
(* Properties of the session.                                              *)
(***************************************************************************)
Requests == {t \in BagToSet(tasks) : t.cmd = "generate" /\ t.pc = "remote"}

\* the number of calls of generate that await the remote API
RequestCount == BagCardinality([t \in Requests |-> CopiesIn(t, tasks)])

ErrorsIn(log) == {k \in 1..Len(log) : log[k].command = "error"}

\* C1: a generate message that arrives after a deleteApiKey was handled, with
\* no saveApiKey since, issues no request to the remote API, and once the key
\* read has answered it ends in the error "Please set your Gemini API key
\* first."
C1_GenerateAfterDeleteHasNoCredential ==
    /\ \A t \in Requests : ~(t.loc.afterDelete /\ keyDeleted)
    /\ (last.cmd = "generate" /\ last.loc.afterDelete /\ keyDeleted /\ last.failure = None)
           => last.log = <<MsgGenerating, MsgError(MSG_SET_KEY_FIRST)>>

\* C2: at most one request of generateDiagram awaits the remote API
C2_AtMostOneRequestOutstanding == RequestCount <= 1

\* C3: a generate handler posts "generating" before its first await (the key
\* read or the remote request) and nothing else until it completes, and when it
\* completes it has posted exactly one more message, "generated" or "error"
C3_GeneratingThenOneTerminal ==
    /\ \A t \in BagToSet(tasks) :
           t.cmd = "generate" => t.log = <<MsgGenerating>>
    /\ last.cmd = "generate" =>
           /\ last.outcome = "resolved"
           /\ Len(last.log) = 2
           /\ last.log[1] = MsgGenerating
           /\ last.log[2].command \in {"generated", "error"}

C3_Witness ==
    /\ last.cmd = "generate"
    /\ Len(last.log) = 2
    /\ last.log[2].command = "generated"

\* C6: no handler ends rejected, and a handler that a collaborator (secret
\* store, template store, remote API, dialog) failed on has posted exactly one
\* error message
C6_NoFailureEscapesAHandler ==
    /\ last.outcome # "rejected"
    /\ last.failure # None => Cardinality(ErrorsIn(last.log)) = 1

\* C7: no two templates of getAllPrePrompts() have the same id
C7_TemplateIdsUnique ==
    \A i, j \in 1..Len(GetAllPrePrompts(custom)) :
        i # j => GetAllPrePrompts(custom)[i].id # GetAllPrePrompts(custom)[j].id

\* C8: the length of getAllPrePrompts() is the number of built-in templates
\* plus the successful adds minus the deletes that returned true
C8_CatalogLength ==
    Len(GetAllPrePrompts(custom)) = Len(DEFAULT_PREPROMPTS) + adds - deletes

\* C9: deletePrePrompt(id) on a built-in or unknown id returns false and
\* leaves the custom list as it is; on the id of a custom template it returns
\* true and removes that one entry, the others keeping their order
C9_DeleteRemovesExactlyThatTemplate ==
    [][\A id \in MessageIds(custom) :
           RecvDeletePrePrompt(id, None) =>
               IF IsDefaultPrePrompt(id) \/ FindIndex(custom, id) = 0
               THEN custom' = custom /\ last'.loc.ret = FALSE
               ELSE /\ custom' = Without(custom, FindIndex(custom, id))
                    /\ \E u \in BagToSet(tasks') :
                           /\ u.cmd = "deletePrePrompt" /\ u.arg.id = id /\ u.loc.ret
                           /\ CopiesIn(u, tasks') = CopiesIn(u, tasks) + 1]_vars

\* C10: updatePrePrompt on a built-in or unknown id posts an error and leaves
\* the custom list as it is; on the id of a custom template the entry found
\* gets the new name and prompt, every entry keeps its id and position, and
\* the handler, once the store has answered, posts prePromptsUpdated with the
\* list getAllPrePrompts() returns then
C10_UpdateInPlace ==
    [][/\ \A id \in MessageIds(custom), io \in IoOutcomes :
              RecvUpdatePrePrompt(id, "Renamed", "blueprint style", io) =>
                  IF IsDefaultPrePrompt(id) \/ FindIndex(custom, id) = 0
                  THEN /\ custom' = custom
                       /\ last'.cmd = "updatePrePrompt"
                       /\ Len(last'.log) = 1 /\ last'.log[1].command = "error"
                  ELSE io = None =>
                       /\ Len(custom') = Len(custom)
                       /\ \A k \in 1..Len(custom) :
                              IF k = FindIndex(custom, id)
                              THEN custom'[k] = [id |-> id, name |-> "Renamed",
                                                 prompt |-> "blueprint style",
                                                 isDefault |-> FALSE]
                              ELSE custom'[k] = custom[k]
       /\ \A t \in BagToSet(tasks) :
              (PrePromptsStored(t) /\ t.cmd = "updatePrePrompt"
                   /\ t.loc.io = None) =>
                  /\ t.loc.ret
                  /\ last'.log = <<MsgPrePromptsUpdated(GetAllPrePrompts(custom'))>>]_vars

C10_Witness ==
    /\ last.cmd = "updatePrePrompt"
    /\ last.log # <<>> /\ last.log[1].command = "prePromptsUpdated"
    /\ \E k \in 1..Len(last.log[1].prePrompts) :
           /\ last.log[1].prePrompts[k].id = last.arg.id
           /\ last.log[1].prePrompts[k].name = "Renamed"
           /\ last.log[1].prePrompts[k].prompt = "blueprint style"

(***************************************************************************)
(* Properties of the image generation client.                              *)
(***************************************************************************)
\* C4: when the response has at least one part and no part has inline data,
\* generateDiagram throws the error "No image was generated. Please try a
\* different prompt."
C4_NoImageProduced ==
    (/\ last.cmd = "generateDiagram" /\ last.loc.requested
     /\ last.loc.api.kind = "response"
     /\ last.loc.api.parts # None
     /\ Len(last.loc.api.parts[1]) > 0
     /\ \A k \in 1..Len(last.loc.api.parts[1]) : last.loc.api.parts[1][k].inlineData = None)
        => last.loc.result = Thrown(Err(MSG_NO_IMAGE))

\* C5: what the remote call throws is reclassified by its message: with "API
\* key" in it, the invalid-key error; otherwise with "quota" or "rate" in it,
\* the rate-limit error; any other Error is rethrown as it is; a value that is
\* no Error becomes the unexpected-error error
C5_ErrorReclassification ==
    (last.cmd = "generateDiagram" /\ last.loc.requested /\ last.loc.api.kind = "throws") =>
        LET e == last.loc.api.error
            thrown == last.loc.result.error
        IN  /\ ~last.loc.result.ok
            /\ thrown.isError
            /\ ~e.isError => thrown.message = MSG_UNEXPECTED
            /\ (e.isError /\ Includes(e.message, "API key")) =>
                   thrown.message = MSG_INVALID_KEY
            /\ (e.isError /\ ~Includes(e.message, "API key")
                    /\ (Includes(e.message, "quota") \/ Includes(e.message, "rate"))) =>
                   thrown.message = MSG_RATE_LIMIT
            /\ (e.isError /\ ~Includes(e.message, "API key")
                    /\ ~Includes(e.message, "quota") /\ ~Includes(e.message, "rate")) =>
                   thrown = e

C5_Witness ==
    /\ last.cmd = "generateDiagram" /\ last.loc.requested
    /\ last.loc.api = ApiThrows(Err("Resource exhausted: rate limit reached"))
    /\ last.loc.result = Thrown(Err(MSG_RATE_LIMIT))

\* C21: a call of generateDiagram on a client that was never initialized is
\* rejected with "Gemini API not initialized. Please set your API key." and
\* sends no request; when initialize(key) returns isInitialized() is true and
\* the client is bound to that key, whatever it was bound to before; nothing
\* but initialize rebinds it, and every request is sent with the key of the
\* latest initialize
C21_NotInitializedThenLastKeyWins ==
    [][/\ (received' = received + 1 /\ last'.cmd # "initialize" /\ client = None) =>
              /\ tasks' = tasks
              /\ last'.cmd = "generateDiagram"
              /\ last'.outcome = "rejected"
              /\ ~last'.loc.requested
              /\ last'.loc.result = Thrown(Err(MSG_NOT_INITIALIZED))
       /\ last'.cmd = "initialize" =>
              /\ IsInitialized(client')
              /\ client' = Some(last'.arg.apiKey)
       /\ client' # client => last'.cmd = "initialize"
       /\ \A u \in BagToSet(tasks') :
              CopiesIn(u, tasks') > CopiesIn(u, tasks) =>
                  client # None /\ u.loc.request.key = client[1]]_vars

\* initialize("key-B") has returned while a request sent with "key-A" awaits
\* the remote API
C21_Witness ==
    /\ last.cmd = "initialize"
    /\ client = Some("key-B")
    /\ \E t \in BagToSet(tasks) : t.loc.request.key = "key-A"

\* C22: when the response has no candidate parts, the list missing or empty,
\* generateDiagram throws the error "No response from model. Please try a
\* different prompt." and that is the error its caller gets
C22_EmptyResponse ==
    (/\ last.cmd = "generateDiagram" /\ last.loc.requested
     /\ last.loc.api.kind = "response"
     /\ (last.loc.api.parts = None \/ Len(last.loc.api.parts[1]) = 0))
        => /\ last.outcome = "rejected"
           /\ last.loc.result = Thrown(Err(MSG_NO_RESPONSE))

\* the response had an empty list of parts
C22_Witness ==
    /\ last.cmd = "generateDiagram" /\ last.loc.requested
    /\ last.loc.api = Response(Some(<<>>))
    /\ last.loc.result = Thrown(Err(MSG_NO_RESPONSE))

\* C23: when some part of the response has inline data, generateDiagram
\* returns the data of the first such part of the list, with the mimeType of
\* that part, or "image/png" when that part has none
C23_FirstInlinePart ==
    (/\ last.cmd = "generateDiagram" /\ last.loc.requested
     /\ last.loc.api.kind = "response"
     /\ last.loc.api.parts # None
     /\ \E k \in 1..Len(last.loc.api.parts[1]) : last.loc.api.parts[1][k].inlineData # None)
        => \E k \in 1..Len(last.loc.api.parts[1]) :
               LET parts == last.loc.api.parts[1]
               IN  /\ parts[k].inlineData # None
                   /\ \A j \in 1..(k - 1) : parts[j].inlineData = None
                   /\ last.outcome = "resolved"
                   /\ last.loc.result =
                          Returned([base64 |-> parts[k].inlineData[1].data,
                                    mimeType |-> IF parts[k].inlineData[1].mimeType = None
                                                 THEN "image/png"
                                                 ELSE parts[k].inlineData[1].mimeType[1]])

\* an inline part without mimeType came before one with a mimeType
C23_Witness ==
    /\ last.cmd = "generateDiagram" /\ last.loc.requested
    /\ last.loc.api = Response(Some(<<InlinePart("Qg==", None),
                                       InlinePart("QQ==", Some("image/jpeg"))>>))
    /\ last.loc.result = Returned([base64 |-> "Qg==", mimeType |-> "image/png"])

\* C24: the contents of the request generateDiagram sends are the template
\* prompt, then " showing: ", then the content, and nothing else
C24_FinalPrompt ==
    \A t \in BagToSet(tasks) :
        t.cmd = "generateDiagram" =>
            LET f == t.arg.diagramTypePrompt
                c == t.arg.userContent
                sent == t.loc.request.contents
            IN  /\ Len(sent) = Len(f) + 10 + Len(c)
                /\ SubSeq(sent, 1, Len(f)) = f
                /\ SubSeq(sent, Len(f) + 1, Len(f) + 10) = " showing: "
                /\ SubSeq(sent, Len(f) + 11, Len(sent)) = c

\* a request for a content with blanks at both ends awaits the remote API
C24_Witness ==
    \E t \in BagToSet(tasks) :
        /\ t.cmd = "generateDiagram"
        /\ t.arg.diagramTypePrompt = " sketch"
        /\ t.arg.userContent = " login flow\n"
        /\ t.loc.request.contents = " sketch showing:  login flow\n"

(***************************************************************************)
(* Properties of the template catalog.                                     *)
(***************************************************************************)
IdsOf(c) == [i \in 1..Len(c) |-> c[i].id]

\* a is b with some of its elements left out
RECURSIVE IsSubseq(_, _)
IsSubseq(a, b) ==
    IF a = <<>> THEN TRUE
    ELSE IF b = <<>> THEN FALSE
    ELSE IF Head(a) = Head(b) THEN IsSubseq(Tail(a), Tail(b))
    ELSE IsSubseq(a, Tail(b))

\* C11: whatever was added, updated or deleted, getAllPrePrompts() starts with
\* the built-in templates, unchanged and in their order, and a delete or an
\* update that names a built-in id has returned false
C11_BuiltInsImmutable ==
    /\ Len(GetAllPrePrompts(custom)) >= Len(DEFAULT_PREPROMPTS)
    /\ \A i \in 1..Len(DEFAULT_PREPROMPTS) :
           /\ GetAllPrePrompts(custom)[i] = DEFAULT_PREPROMPTS[i]
           /\ GetAllPrePrompts(custom)[i].isDefault
    /\ (last.cmd \in {"deletePrePrompt", "updatePrePrompt"}
            /\ IsDefaultPrePrompt(last.arg.id)) => ~last.loc.ret

C11_Witness ==
    /\ last.cmd = "deletePrePrompt"
    /\ last.arg.id = "state-machine"
    /\ Len(custom) = 2

\* C12: getAllPrePrompts() is the built-in templates followed by the custom
\* ones, and the custom ones stay in the order of their creation: every step
\* either puts one new template after all the stored ones, or leaves the
\* stored ones in their relative order
C12_BuiltInsThenCreationOrder ==
    [][/\ SubSeq(GetAllPrePrompts(custom'), 1, Len(DEFAULT_PREPROMPTS))
              = DEFAULT_PREPROMPTS
       /\ SubSeq(GetAllPrePrompts(custom'), Len(DEFAULT_PREPROMPTS) + 1,
                 Len(GetAllPrePrompts(custom'))) = custom'
       /\ \/ /\ Len(custom') = Len(custom) + 1
             /\ SubSeq(custom', 1, Len(custom)) = custom
             /\ adds' = adds + 1
          \/ /\ adds' = adds
             /\ IsSubseq(IdsOf(custom'), IdsOf(custom))]_vars

C12_Witness ==
    /\ Len(custom) = 2
    /\ custom[1].id = NewId(0) /\ custom[1].name = "Renamed"
    /\ custom[2].id = NewId(1)

\* C13: when addPrePrompt(name, prompt) has returned the template t,
\* getPrePromptById(t.id) is a template with that name and prompt and
\* isDefault = false
C13_AddThenGetById ==
    (last.cmd = "addPrePrompt" /\ last.outcome = "resolved") =>
        /\ last.loc.got # None
        /\ last.loc.got[1].name = last.arg.name
        /\ last.loc.got[1].prompt = last.arg.prompt
        /\ ~last.loc.got[1].isDefault
(***************************************************************************)
(* Properties of the generate handler.                                     *)
(***************************************************************************)
\* the calls of generate that reach the remote API in this step
NewRequests ==
    {u \in BagToSet(tasks') :
        u.cmd = "generate" /\ u.pc = "remote" /\ CopiesIn(u, tasks') > CopiesIn(u, tasks)}

\* the content a generate message stands for, the selected text being ed
ExpectedContent(arg, ed) ==
    IF arg.useSelection /\ ed # None THEN ed[1] ELSE arg.prompt

\* id is the id of a built-in template or of a stored one
Known(id) ==
    \/ \E i \in 1..Len(DEFAULT_PREPROMPTS) : DEFAULT_PREPROMPTS[i].id = id
    \/ \E i \in 1..Len(custom) : custom[i].id = id

\* C14: the content of a request is the selected text when useSelection is
\* true and there is a selection (the prompt of the message is ignored), and
\* the prompt of the message otherwise
C14_SelectionOverridesPrompt ==
    [][\A u \in NewRequests :
           u.loc.request.contents =
               FinalPrompt(GetPrePromptById(custom, u.arg.prePromptId)[1].prompt,
                           ExpectedContent(u.arg, editor))]_vars

C14_Witness ==
    \E t \in Requests :
        /\ t.arg.useSelection /\ t.arg.prompt = "login flow"
        /\ t.loc.request.contents =
               FinalPrompt(DEFAULT_PREPROMPTS[1].prompt, "class Login {}")

\* C15: a generate whose client is initialized and whose template is found,
\* and whose content is empty or whitespace-only, posts the error "Please
\* enter a description for your diagram." and sends no request
C15_EmptyContentIsAnError ==
    [][/\ \A u \in NewRequests : ~TrimIsEmpty(ExpectedContent(u.arg, editor))
       /\ \A p \in GeneratePrompts, id \in MessageIds(custom), u \in BOOLEAN :
              (/\ client # None
               /\ received' = received + 1
               /\ Known(id)
               /\ TrimIsEmpty(ExpectedContent([useSelection |-> u, prompt |-> p], editor))
               /\ RecvGenerate(p, id, u))
                  => /\ last'.log = <<MsgGenerating, MsgError(MSG_ENTER_DESCRIPTION)>>
                     /\ tasks' = tasks
       /\ \A t \in BagToSet(tasks) :
              (/\ Truthy(secret)
               /\ t.cmd = "generate"
               /\ received' = received
               /\ Known(t.arg.prePromptId)
               /\ TrimIsEmpty(ExpectedContent(t.arg, editor))
               /\ GenerateGetApiKey(t, None))
                  => /\ last'.log = <<MsgGenerating, MsgError(MSG_ENTER_DESCRIPTION)>>
                     /\ tasks' = tasks (-) SetToBag({t})]_vars

C15_Witness ==
    /\ last.cmd = "generate"
    /\ last.arg.useSelection /\ last.arg.prompt = "login flow"
    /\ editor = Some(" \t")
    /\ last.log = <<MsgGenerating, MsgError(MSG_ENTER_DESCRIPTION)>>
\* C16: when the key read of a generate that found the client uninitialized
\* answers: with no key stored the handler posts the error "Please set your
\* Gemini API key first.", leaves the client as it is and sends no request;
\* with a key stored it initializes the client with that key and goes on, and
\* a request it sends is sent with that key
C16_NoCredentialIsAnError ==
    [][\A t \in BagToSet(tasks) :
           (t.cmd = "generate" /\ received' = received /\ GenerateGetApiKey(t, None)) =>
               IF ~Truthy(secret)
               THEN /\ last'.log = <<MsgGenerating, MsgError(MSG_SET_KEY_FIRST)>>
                    /\ client' = client
                    /\ tasks' = tasks (-) SetToBag({t})
               ELSE /\ client' = Some(secret[1])
                    /\ \A u \in NewRequests : u.loc.request.key = secret[1]
                    /\ last'.cmd = "generate" =>
                           last'.log[2] # MsgError(MSG_SET_KEY_FIRST)]_vars

C16_Witness ==
    /\ last.cmd = "generate"
    /\ last.log = <<MsgGenerating, MsgError(MSG_SET_KEY_FIRST)>>
    /\ client = None
    /\ secret = None

\* the generate messages whose handler, its client initialized, looks the
\* template up in this step: it sends a request, or it completes without one
\* and neither a failure of the store nor a missing key is the reason
LookedUp ==
    {u.arg : u \in NewRequests} \cup
        (IF /\ last'.cmd = "generate"
            /\ "request" \notin DOMAIN last'.loc
            /\ last'.failure = None
            /\ IF received' = received + 1 THEN client # None ELSE Truthy(secret)
         THEN {last'.arg} ELSE {})

\* C17: a generate whose prePromptId is the id of no template when the
\* handler looks it up posts "Selected diagram type not found." and sends no
\* request; the id of a built-in or of a custom template resolves: that
\* error is not posted, and a request starts with the prompt of the first
\* template with that id
C17_UnknownTemplateIsAnError ==
    [][\A arg \in LookedUp :
           IF ~Known(arg.prePromptId)
           THEN /\ last'.cmd = "generate" /\ last'.arg = arg
                /\ last'.log = <<MsgGenerating, MsgError(MSG_TYPE_NOT_FOUND)>>
                /\ NewRequests = {}
           ELSE /\ last'.cmd = "generate" => last'.log[2] # MsgError(MSG_TYPE_NOT_FOUND)
                /\ \A u \in NewRequests :
                       LET all == DEFAULT_PREPROMPTS \o custom
                           first == CHOOSE i \in 1..Len(all) :
                                        /\ all[i].id = arg.prePromptId
                                        /\ \A k \in 1..(i - 1) :
                                               all[k].id # arg.prePromptId
                       IN  SubSeq(u.loc.request.contents, 1, Len(all[first].prompt))
                               = all[first].prompt]_vars

\* a generate that named a stored template which was deleted before the
\* handler looked it up
C17_Witness ==
    /\ last.cmd = "generate"
    /\ last.arg.prePromptId = NewId(0)
    /\ last.log = <<MsgGenerating, MsgError(MSG_TYPE_NOT_FOUND)>>

\* C18: when the store has answered a saveApiKey{apiKey}: on success the
\* secret store holds apiKey, the client is bound to apiKey and
\* apiKeyUpdated{hasApiKey: true} is all that is posted; on failure one error
\* is all that is posted and the stored key and the client are as before
C18_SaveApiKey ==
    [][last'.cmd = "saveApiKey" =>
           IF last'.failure = None
           THEN /\ secret' = Some(last'.arg.apiKey)
                /\ client' = Some(last'.arg.apiKey)
                /\ last'.log = <<MsgApiKeyUpdated(TRUE)>>
           ELSE /\ secret' = secret
                /\ client' = client
                /\ Len(last'.log) = 1
                /\ last'.log[1].command = "error"]_vars

C18_Witness ==
    /\ last.cmd = "saveApiKey"
    /\ last.failure # None
    /\ last.log = <<MsgError("storage unavailable")>>
    /\ secret = Some("key-0")
    /\ client = None

\* C19: when the store has answered a deleteApiKey without failing, no key
\* is stored, hasApiKey() is false, apiKeyUpdated{hasApiKey: false} is all
\* that is posted and nothing else has changed, whether a key was stored or
\* not
C19_DeleteApiKeyIdempotent ==
    [][(last'.cmd = "deleteApiKey" /\ last'.failure = None) =>
           /\ secret' = None
           /\ ~HasApiKey(secret')
           /\ last'.outcome = "resolved"
           /\ last'.log = <<MsgApiKeyUpdated(FALSE)>>
           /\ UNCHANGED <<client, custom, editor, config>>]_vars

\* a deleteApiKey handled when no key was stored
C19_Witness ==
    /\ last.cmd = "deleteApiKey"
    /\ ~last.loc.hadKey
    /\ last.log = <<MsgApiKeyUpdated(FALSE)>>

\* C20: a ready handler that no store failed on has posted one init message,
\* with hasApiKey true exactly when a non-empty key is stored, the template
\* list and the selection as they are now and the configuration with its
\* fallbacks, and if it says hasApiKey the client is bound to the stored key
C20_ReadyPostsInit ==
    (last.cmd = "ready" /\ last.failure = None) =>
        /\ last.log = <<MsgInit(HasApiKey(secret), GetAllPrePrompts(custom),
                                GetSelectedText(editor), EffectiveConfig(config))>>
        /\ last.log[1].hasApiKey => (secret # None /\ client = secret)

(***************************************************************************)
(* Properties of the requests to the remote API.                           *)
(***************************************************************************)
\* C25: a step sends at most one request to the remote API, and when the
\* remote API answers a request, with a response or a failure, the generate
\* handler that sent it completes with its terminal message and no request is
\* sent in its place
C25_OneRequestPerCall ==
    [][/\ RequestCount' <= RequestCount + 1
       /\ \A u \in NewRequests : CopiesIn(u, tasks') = CopiesIn(u, tasks) + 1
       /\ \A t \in Requests, api \in RemoteAnswers :
              GenerateRemote(t, api) =>
                  /\ RequestCount' = RequestCount - 1
                  /\ NewRequests = {}
                  /\ last'.cmd = "generate" /\ last'.arg = t.arg
                  /\ Len(last'.log) = 2]_vars

\* the remote API failed a request and its handler has completed with an
\* error, no request awaiting the remote API
C25_Witness ==
    /\ last.cmd = "generate"
    /\ last.failure = Some(Err("fetch failed"))
    /\ last.log[2].command = "error"
    /\ RequestCount = 0

(***************************************************************************)
(* Properties of the selection snapshot.                                   *)
(***************************************************************************)
\* C26: the snapshot posted for a selected text of n lines has lineCount
\* min(n, 100) and as text the first min(n, 100) lines joined by newlines,
\* and it is null when there is no active editor or the selection is empty
C26_SelectionCapped ==
    last.cmd \in {"getSelection", "onDidChangeTextEditorSelection"} =>
        /\ Len(last.log) = 1
        /\ editor = None => last.log[1].selection = None
        /\ \A lines \in SelectionLines :
               editor = Some(Join(lines)) =>
                   last.log[1].selection =
                       Some([text |-> Join(SubSeq(lines, 1, Min(Len(lines), 100))),
                             lineCount |-> Min(Len(lines), 100)])

\* the snapshot of a selection of 250 lines
C26_Witness ==
    /\ last.cmd = "onDidChangeTextEditorSelection"
    /\ editor = Some(Join(NumberedLines(250)))
    /\ last.log[1].selection[1].lineCount = 100
    /\ last.log[1].selection[1].text = Join(NumberedLines(100))

\* C27: while a generate handler awaits the remote API a selection-change
\* event and a getSelection message can be handled at once; each of them is
\* handled in one step that posts exactly one selectionChanged message, with
\* the snapshot of the selection as it is then, and leaves every suspended
\* handler as it is, so the message precedes the terminal message of any
\* pending generate
C27_SelectionHandledAtOnce ==
    /\ []((Requests # {} /\ received < MaxReceived) =>
              /\ ENABLED (\E sel \in EditorSelections : SelectionChanged(sel))
              /\ ENABLED RecvGetSelection)
    /\ [][last'.cmd \in {"onDidChangeTextEditorSelection", "getSelection"} =>
              /\ last'.log = <<MsgSelectionChanged(GetSelectedText(editor'))>>
              /\ tasks' = tasks]_vars

\* a selection-change event was handled while a request awaits the remote API
C27_Witness ==
    /\ last.cmd = "onDidChangeTextEditorSelection"
    /\ last.log = <<MsgSelectionChanged(Some([text |-> "class Login {}", lineCount |-> 1]))>>
    /\ \E t \in Requests : t.log = <<MsgGenerating>>

(***************************************************************************)
(* Properties of the template handlers.                                    *)
(***************************************************************************)
\* C28: a handler of addPrePrompt, deletePrePrompt or updatePrePrompt posts
\* nothing until it completes and has posted exactly one message when it
\* does. A delete or an update of an id that no stored template has (a
\* built-in id, an unknown id) completes at once with the error "Cannot
\* delete default diagram types." or "Cannot update this diagram type." and
\* leaves the stored list as it is; any other one completes when the store
\* has answered, with prePromptsUpdated carrying the list as it is then, or
\* with an error if the store failed
C28_OneMessagePerTemplateChange ==
    [][/\ \A u \in BagToSet(tasks') :
              u.cmd \in {"addPrePrompt", "deletePrePrompt", "updatePrePrompt"} =>
                  /\ u.log = <<>>
                  /\ (u.cmd # "addPrePrompt" /\ CopiesIn(u, tasks') > CopiesIn(u, tasks)) =>
                         \E i \in 1..Len(custom) : custom[i].id = u.arg.id
       /\ last'.cmd \in {"addPrePrompt", "deletePrePrompt", "updatePrePrompt"} =>
              /\ Len(last'.log) = 1
              /\ IF received' = received
                 THEN IF last'.failure = None
                      THEN last'.log[1] = MsgPrePromptsUpdated(GetAllPrePrompts(custom'))
                      ELSE last'.log[1].command = "error"
                 ELSE /\ last'.cmd # "addPrePrompt"
                      /\ \A i \in 1..Len(custom) : custom[i].id # last'.arg.id
                      /\ last'.log[1] = MsgError(IF last'.cmd = "deletePrePrompt"
                                                 THEN "Cannot delete default diagram types."
                                                 ELSE "Cannot update this diagram type.")
                      /\ custom' = custom]_vars

\* the delete of a built-in template has been refused
C28_Witness ==
    /\ last.cmd = "deletePrePrompt"
    /\ last.arg.id = "flowchart"
    /\ last.log = <<MsgError("Cannot delete default diagram types.")>>

(***************************************************************************)
(* Properties of the message boundary.                                     *)
(***************************************************************************)
\* every key the secret store may hold: stored before the session or saved
\* during it
Credentials == Keys \cup {k[1] : k \in InitialSecrets \ {None}}

\* the strings of a list of templates and of a selection snapshot
TemplateStrings(prePrompts) ==
    UNION {{prePrompts[i].id, prePrompts[i].name, prePrompts[i].prompt} :
               i \in 1..Len(prePrompts)}

SelectionStrings(selection) == IF selection = None THEN {} ELSE {selection[1].text}

\* the strings an outbound message carries
StringsOf(msg) ==
    CASE msg.command = "init" ->
             TemplateStrings(msg.prePrompts) \cup SelectionStrings(msg.selection)
                 \cup {msg.config.aspectRatio, msg.config.model}
      [] msg.command = "generated" -> {msg.image.base64, msg.image.mimeType}
      [] msg.command = "error" -> {msg.message}
      [] msg.command = "prePromptsUpdated" -> TemplateStrings(msg.prePrompts)
      [] msg.command = "selectionChanged" -> SelectionStrings(msg.selection)
      [] msg.command = "confirmDelete" -> {msg.id}
      [] OTHER -> {}

\* the messages posted by the handlers that are suspended and by the one
\* that has just completed
Posted ==
    UNION {{t.log[k] : k \in 1..Len(t.log)} : t \in BagToSet(tasks) \cup {last}}

\* C29: no string of a posted message contains a key the secret store has
\* held or was given, and hasApiKey, in init and apiKeyUpdated, is a boolean
C29_NoCredentialInMessages ==
    \A msg \in Posted :
        /\ \A str \in StringsOf(msg), key \in Credentials : ~Includes(str, key)
        /\ msg.command \in {"init", "apiKeyUpdated"} => msg.hasApiKey \in BOOLEAN

\* a ready handler has posted init while a key is stored and bound
C29_Witness ==
    /\ last.cmd = "ready"
    /\ secret \in {Some(key) : key \in Credentials}
    /\ client = secret
    /\ Len(last.log) = 1 /\ last.log[1].command = "init" /\ last.log[1].hasApiKey

(***************************************************************************)
(* Properties of saving and opening an image.                              *)
(***************************************************************************)
\* C30: the handlers of downloadImage and openInOS post no message at all;
\* when saving or opening has failed, one error notification has been shown;
\* when the save dialog was cancelled, no file is written and nothing is
\* shown
C30_FileFailuresAreNotifications ==
    /\ \A t \in BagToSet(tasks) :
           t.cmd \in {"downloadImage", "openInOS"} => t.log = <<>>
    /\ last.cmd \in {"downloadImage", "openInOS"} =>
           /\ last.log = <<>>
           /\ last.outcome = "resolved"
           /\ (last.failure # None \/ (last.cmd = "openInOS" /\ ~last.loc.opened)) =>
                  /\ Len(last.loc.notifications) = 1
                  /\ last.loc.notifications[1].kind = "error"
           /\ (last.cmd = "downloadImage" /\ last.failure = None /\ last.loc.uri = None) =>
                  /\ last.loc.written = None
                  /\ last.loc.notifications = <<>>

(***************************************************************************)
(* Properties of the order of the generate handler's tests.                *)
(***************************************************************************)
\* C31: a generate handler that completes without sending a request, no
\* store having failed, has posted exactly one error after "generating", the
\* one of the first test that fails in the order credential, template,
\* content: "Please set your Gemini API key first." when no key is stored,
\* otherwise "Selected diagram type not found." when the id is the id of no
\* template, otherwise "Please enter a description for your diagram."
C31_ValidationOrder ==
    [][(/\ last'.cmd = "generate"
        /\ "request" \notin DOMAIN last'.loc
        /\ last'.failure = None) =>
           /\ Len(last'.log) = 2
           /\ last'.log[1] = MsgGenerating
           /\ last'.log[2] =
                  MsgError(IF ~Truthy(secret)
                           THEN "Please set your Gemini API key first."
                           ELSE IF ~Known(last'.arg.prePromptId)
                           THEN "Selected diagram type not found."
                           ELSE "Please enter a description for your diagram.")]_vars

(***************************************************************************)
(* Properties of the order of the client's error tests.                    *)
(***************************************************************************)
\* C32: when the remote call fails with an Error whose message contains "API
\* key" and also "quota" or "rate", generateDiagram throws the invalid-key
\* error and not the rate-limit error; and whatever the remote call fails
\* with, generateDiagram throws one Error, which is the invalid-key error
\* exactly when the message contains "API key"
C32_ApiKeyBeforeQuota ==
    (last.cmd = "generateDiagram" /\ last.loc.requested /\ last.loc.api.kind = "throws") =>
        LET e == last.loc.api.error
            both == /\ e.isError
                    /\ Includes(e.message, "API key")
                    /\ (Includes(e.message, "quota") \/ Includes(e.message, "rate"))
        IN  /\ last.outcome = "rejected"
            /\ ~last.loc.result.ok /\ last.loc.result.error.isError
            /\ both => /\ last.loc.result.error.message
                              = "Invalid API key. Please check your Gemini API key."
                       /\ last.loc.result.error.message
                              # "API rate limit exceeded. Please try again later."
            /\ (last.loc.result.error.message
                    = "Invalid API key. Please check your Gemini API key.")
                   <=> (e.isError /\ Includes(e.message, "API key"))

\* the remote call failed with a message that names the API key and a rate
\* limit
C32_Witness ==
    /\ last.cmd = "generateDiagram" /\ last.loc.requested
    /\ last.loc.api = ApiThrows(Err("API key rate limit reached"))
    /\ last.loc.result = Thrown(Err(MSG_INVALID_KEY))

(***************************************************************************)
(* Properties of the client's binding.                                     *)
(***************************************************************************)
\* C39: a client that is initialized stays initialized; a deleteApiKey and
\* a saveApiKey that the store failed leave the client as it is; the client
\* is bound to another key only where a handler calls initialize: when a
\* saveApiKey has been stored, with the key saved, and when a ready or a
\* generate handler has read the stored key, with that key
C39_InitializedForGood ==
    [][/\ IsInitialized(client) => IsInitialized(client')
       /\ last'.cmd = "deleteApiKey" => client' = client
       /\ (last'.cmd = "saveApiKey" /\ last'.failure # None) => client' = client
       /\ client' # client =>
              /\ received' = received
              /\ \/ /\ last'.cmd = "saveApiKey"
                    /\ client' = Some(last'.arg.apiKey)
                 \/ /\ last'.cmd \in {"ready", "generate"} \/ NewRequests # {}
                    /\ client' = secret]_vars

\* the stored key has been deleted and the client is still bound
C39_Witness ==
    /\ last.cmd = "deleteApiKey" /\ last.failure = None
    /\ secret = None
    /\ IsInitialized(client)

(***************************************************************************)
(* Properties of the selection a generate handler uses.                    *)
(***************************************************************************)
\* C38: when a generate handler that awaited the key read sends its request,
\* the content of the request is the content its message stood for when it
\* was received: with useSelection, the text selected then
C38_SelectionAsReceived ==
    [][\A t \in BagToSet(tasks), u \in NewRequests :
           (/\ t.cmd = "generate" /\ t.pc = "getApiKey"
            /\ CopiesIn(t, tasks') < CopiesIn(t, tasks)
            /\ u.arg = t.arg) =>
               LET expected == " showing: "
                                   \o ExpectedContent(t.arg, t.loc.selectionAtReceipt)
                   sent == u.loc.request.contents
               IN  /\ Len(sent) >= Len(expected)
                   /\ SubSeq(sent, Len(sent) - Len(expected) + 1, Len(sent)) = expected]_vars

(***************************************************************************)
(* The command 'nanobanana.setApiKey' of the extension: it asks for a key  *)
(* in an input box and stores it with a StorageManager of its own, which   *)
(* writes the secret store the panel's reads.                              *)
(***************************************************************************)
\* what showInputBox resolves to: undefined when dismissed, or the text typed
InputBoxAnswers == {None, Some(""), Some("key-B")}

RecvSetApiKeyCommand ==
    /\ Accept
    /\ Suspend(Task("nanobanana.setApiKey", "showInputBox",
                    [command |-> "nanobanana.setApiKey"], <<>>, NoLocals))
    /\ UNCHANGED <<secret, client, custom, now, editor, adds, deletes, keyDeleted,
                   config>>

\* the input box answers
SetApiKeyInputAnswered(t, apiKey) ==
    /\ t.cmd = "nanobanana.setApiKey" /\ t.pc = "showInputBox"
    /\ IF ~Truthy(apiKey)
       THEN /\ tasks' = tasks (-) SetToBag({t})
            /\ last' = Completed(t.cmd, t.arg, t.log, "resolved",
                                 [apiKey |-> apiKey, notifications |-> <<>>], None)
       ELSE Resuspend(t, Task(t.cmd, "store", t.arg, t.log, [apiKey |-> apiKey]))
    /\ UNCHANGED <<secret, client, custom, now, editor, received, adds, deletes,
                   keyDeleted, config>>

\* storageManager.setApiKey answers; the command has no try block
SetApiKeyCommandStored(t, io) ==
    /\ t.cmd = "nanobanana.setApiKey" /\ t.pc = "store"
    /\ tasks' = tasks (-) SetToBag({t})
    /\ IF io = None
       THEN /\ secret' = Some(t.loc.apiKey[1])
            /\ last' = Completed(t.cmd, t.arg, t.log, "resolved",
                                 [apiKey |-> t.loc.apiKey,
                                  notifications |->
                                      <<InfoNotification(
                                            "Gemini API key saved successfully!")>>],
                                 None)
       ELSE /\ secret' = secret
            /\ last' = Completed(t.cmd, t.arg, t.log, "rejected",
                                 [apiKey |-> t.loc.apiKey, notifications |-> <<>>], io)
    /\ UNCHANGED <<client, custom, now, editor, received, adds, deletes, keyDeleted,
                   config>>

\* generation and the two ways of storing a key
NextCredential ==
    \/ RecvGenerate("login flow", "flowchart", FALSE)
       /\ UNCHANGED view
    \/ \E t \in BagToSet(tasks), io \in IoOutcomes : GenerateGetApiKey(t, io)
       /\ UNCHANGED view
    \/ \E t \in BagToSet(tasks), api \in RemoteAnswers : GenerateRemote(t, api)
       /\ UNCHANGED view
    \/ \E k \in Keys : RecvSaveApiKey(k)
       /\ UNCHANGED view
    \/ \E t \in BagToSet(tasks), io \in IoOutcomes : SaveApiKeyStored(t, io)
       /\ UNCHANGED view
    \/ RecvSetApiKeyCommand
       /\ UNCHANGED view
    \/ \E t \in BagToSet(tasks), k \in InputBoxAnswers : SetApiKeyInputAnswered(t, k)
       /\ UNCHANGED view
    \/ \E t \in BagToSet(tasks), io \in IoOutcomes : SetApiKeyCommandStored(t, io)
       /\ UNCHANGED view

SpecCredential == Init /\ [][NextCredential]_vars

\* C34: a request sent to the remote API while a key is stored is sent with
\* the key that is stored, whether the saveApiKey message or the command
\* 'nanobanana.setApiKey' stored it
C34_RequestUsesStoredKey ==
    [][\A u \in NewRequests :
           Truthy(secret) => u.loc.request.key = secret[1]]_vars

(***************************************************************************)
(* The panel as a whole: the provider and the script of its webview. The   *)
(* script's messages to the host are received as they are sent; the        *)
(* host's messages wait in the inbox until the script handles them, in the *)
(* order they were posted. The view can be disposed at any time.           *)
(***************************************************************************)
\* the handlers that suspended and the handlers that left their await in this
\* step
Started == {u \in BagToSet(tasks') : CopiesIn(u, tasks') > CopiesIn(u, tasks)}

Left == {t \in BagToSet(tasks) : CopiesIn(t, tasks') < CopiesIn(t, tasks)}

\* the calls of this.postMessage in this step, each with the inbound message
\* whose handler made it
StepPosts ==
    LET before == IF Left = {} THEN 0 ELSE Len((CHOOSE t \in Left : TRUE).log)
        who == IF last' # NoLast THEN [log |-> last'.log, of |-> last'.arg]
               ELSE IF Started # {}
               THEN [log |-> (CHOOSE u \in Started : TRUE).log,
                     of |-> (CHOOSE u \in Started : TRUE).arg]
               ELSE [log |-> <<>>, of |-> NoLocals]
    IN  [k \in 1..(Len(who.log) - before) |->
             [msg |-> who.log[before + k],
              of |-> IF "command" \in DOMAIN who.of THEN who.of
                     ELSE [command |-> "event"]]]

\* this.view?.webview.postMessage(message) for the posts of this step, v
\* being the view but for them: this.view is never cleared, so after the
\* disposal the messages still go to the disposed view
Relay(v) ==
    view' = IF v.disposed THEN [v EXCEPT !.late = @ \o StepPosts]
            ELSE [v EXCEPT !.inbox = @ \o StepPosts]

\* the host takes no step
HostIdle ==
    /\ tasks' = tasks
    /\ last' = NoLast
    /\ UNCHANGED <<secret, client, custom, now, editor, received, adds, deletes,
                   keyDeleted, config>>

\* the state a session starts in: a key and a custom template were stored by
\* an earlier session
InitPanel ==
    /\ secret = Some("key-0")
    /\ client = None
    /\ custom = <<NewPrePrompt(0, "My Type", "hand-drawn sketch")>>
    /\ now = 1
    /\ editor = None
    /\ tasks = EmptyBag
    /\ last = NoLast
    /\ received = 0
    /\ adds = 0
    /\ deletes = 0
    /\ keyDeleted = FALSE
    /\ config = [defaultAspectRatio |-> Some("16:9"), defaultModel |-> Some(DEFAULT_MODEL)]
    /\ view = NewView

\* the script runs and posts ready
WebviewLoaded ==
    /\ ~view.disposed /\ ~view.loaded
    /\ RecvReady
    /\ Relay([view EXCEPT !.loaded = TRUE])

\* the script handles the oldest message posted to it, any but confirmDelete
Deliver ==
    /\ ~view.disposed /\ view.inbox # <<>>
    /\ Head(view.inbox).msg.command # "confirmDelete"
    /\ HostIdle
    /\ view' = Observe(OnMessage([view EXCEPT !.inbox = Tail(@)], Head(view.inbox).msg),
                       Head(view.inbox))

\* the script handles confirmDelete: it sends deletePrePrompt
DeliverConfirmDelete(io) ==
    /\ ~view.disposed /\ view.inbox # <<>>
    /\ Head(view.inbox).msg.command = "confirmDelete"
    /\ RecvDeletePrePrompt(Head(view.inbox).msg.id, io)
    /\ Relay([view EXCEPT !.inbox = Tail(@)])

\* the user picks an option of the dropdown
SelectType(id) ==
    /\ ~view.disposed /\ view.hasApiKey
    /\ id # view.prepromptSelect
    /\ \E i \in 1..Len(view.prePrompts) : view.prePrompts[i].id = id
    /\ HostIdle
    /\ view' = [view EXCEPT !.prepromptSelect = id]

\* a click on generateBtn with a description typed, another one each time
\* ("diagram 1", "diagram 2", ...); the generator is shown
\* once init has told of a stored key, and handleReady has initialized the
\* client with it by then, so the handler does not read the key
ClickGenerate ==
    /\ ~view.disposed /\ view.hasApiKey
    /\ ~view.generateBtnDisabled
    /\ LET prompt == "diagram " \o ToString(Len(view.issued) + 1)
       IN  /\ RecvGenerate(prompt, view.prepromptSelect, FALSE)
           /\ Relay([view EXCEPT !.issued = Append(@, prompt)])

\* a click on savePrepromptBtn in the modal of addPrepromptBtn
ClickSavePreprompt(t, io) ==
    /\ ~view.disposed /\ view.hasApiKey
    /\ RecvAddPrePrompt("Sketch", "hand-drawn sketch", t, io)
    /\ Relay(view)

\* a click on deletePrepromptBtn
ClickDeletePreprompt ==
    /\ ~view.disposed /\ view.hasApiKey
    /\ ~DeleteHidden(view)
    /\ view.prepromptSelect # ""
    /\ RecvConfirmDeletePrePrompt(view.prepromptSelect)
    /\ Relay(view)

\* the selection of the editor changes; the listener is disposed with the view
EditorSelects(sel) ==
    IF view.disposed
    THEN /\ Accept
         /\ sel # editor
         /\ editor' = sel
         /\ tasks' = tasks
         /\ last' = NoLast
         /\ UNCHANGED <<secret, client, custom, now, adds, deletes, keyDeleted, config,
                        view>>
    ELSE SelectionChanged(sel) /\ Relay(view)

\* webviewView.onDidDispose fires: the view is gone, with what was posted to it
Dispose ==
    /\ ~view.disposed
    /\ HostIdle
    /\ view' = [view EXCEPT !.disposed = TRUE, !.inbox = <<>>]

NextPanel ==
    \/ WebviewLoaded
    \/ \E t \in BagToSet(tasks), io \in IoOutcomes : ReadyHasApiKey(t, io) /\ Relay(view)
    \/ \E t \in BagToSet(tasks), io \in IoOutcomes : ReadyGetApiKey(t, io) /\ Relay(view)
    \/ Deliver
    \/ \E io \in IoOutcomes : DeliverConfirmDelete(io)
    \/ \E id \in {"flowchart"} \cup {custom[i].id : i \in 1..Len(custom)} : SelectType(id)
    \/ ClickGenerate
    \/ \E t \in BagToSet(tasks), api \in RemoteAnswers : GenerateRemote(t, api) /\ Relay(view)
    \/ \E t \in {now, now + 1}, io \in IoOutcomes : ClickSavePreprompt(t, io)
    \/ ClickDeletePreprompt
    \/ \E t \in BagToSet(tasks), a \in {None, Some("Delete")}, io \in IoOutcomes :
           ConfirmDeleteAnswered(t, a, io) /\ Relay(view)
    \/ \E t \in BagToSet(tasks) : PrePromptsStored(t) /\ Relay(view)
    \/ \E sel \in EditorSelections : EditorSelects(sel)
    \/ Dispose

SpecPanel == InitPanel /\ [][NextPanel]_vars

\* C33: the host posts confirmDelete{id} only from the handler of
\* confirmDeletePrePrompt{id}, for an id that named a template when the
\* message was received, and after the dialog answered "Delete"; a handler of
\* confirmDeletePrePrompt with an unknown id or another answer posts nothing
\* and changes neither store nor the client; and the host receives
\* deletePrePrompt{id} only in the step in which the script handles
\* confirmDelete{id}
C33_ConfirmedDeletion ==
    [][/\ \A k \in 1..Len(StepPosts) :
              StepPosts[k].msg.command = "confirmDelete" =>
                  /\ last'.cmd = "confirmDeletePrePrompt"
                  /\ StepPosts[k].msg.id = last'.arg.id
                  /\ "answer" \in DOMAIN last'.loc
                  /\ last'.loc.answer = Some("Delete")
                  /\ \E t \in Left : /\ t.cmd = "confirmDeletePrePrompt"
                                     /\ t.arg = last'.arg
                                     /\ t.pc = "dialog"
       /\ (/\ last'.cmd = "confirmDeletePrePrompt"
           /\ \/ "answer" \notin DOMAIN last'.loc
              \/ last'.loc.answer # Some("Delete")) =>
              /\ last'.log = <<>>
              /\ StepPosts = <<>>
              /\ custom' = custom /\ secret' = secret /\ client' = client
       /\ (last'.cmd = "confirmDeletePrePrompt" /\ Left = {}) =>
              GetPrePromptById(custom, last'.arg.id) = None
       /\ \A u \in Started \cup (IF last' # NoLast /\ Left = {} THEN {last'} ELSE {}) :
              u.cmd = "deletePrePrompt" =>
                  /\ view.inbox # <<>>
                  /\ Head(view.inbox).msg = MsgConfirmDelete(u.arg.id)
                  /\ view'.inbox = Tail(view.inbox) \o StepPosts]_vars

\* the custom template was deleted through the exchange, and the script has
\* the list without it
C33_Witness ==
    /\ custom = <<>>
    /\ deletes = 1
    /\ view.prePrompts = DEFAULT_PREPROMPTS
    /\ view.loaded

\* C35: while a generation announced to the script by generating has had
\* neither its generated nor its error handled, the loading indicator is
\* shown and both generate buttons are disabled
C35_DisabledWhileOutstanding ==
    view.outstanding # {} =>
        /\ view.loading
        /\ view.generateBtnDisabled
        /\ view.generateSelectionBtnDisabled

\* C36: the image the script holds was generated for the latest of the
\* generate messages sent whose generated the script has handled
C36_LatestResultKept ==
    LET IssuedAt(p) == CHOOSE k \in 1..Len(view.issued) : view.issued[k] = p
    IN  view.currentOf # None =>
            \A p \in view.succeeded : IssuedAt(p) <= IssuedAt(view.currentOf[1])

\* C37: a generate handler that is suspended when the view is disposed posts
\* neither generated nor error to the disposed view
C37_NoPostAfterDispose ==
    \A k \in 1..Len(view.late) :
        view.late[k].of.command = "generate" =>
            view.late[k].msg.command \notin {"generated", "error"}
====
